---- MODULE Spec2Model ----
(***************************************************************************)
(* Budget analytics engine of Expense Care: calendar ranges, budget        *)
(* status, category summary.                                               *)
(*                                                                         *)
(* A JavaScript Date is an instant. It is modelled as a record             *)
(* [day, ms]: the number of whole local days since 1970-01-01 and the      *)
(* millisecond within that local day (local time is a fixed offset from    *)
(* UTC: no daylight-saving transitions). getTime() order is the            *)
(* lexicographic order of (day, ms); the two fields are kept apart because *)
(* a millisecond time stamp does not fit the checker's integers.           *)
(*                                                                         *)
(* Amounts and limits are whole numbers of the minor currency unit; a      *)
(* quotient (percentUsed, percent) is the exact fraction [num, den].       *)
(***************************************************************************)
EXTENDS Integers, Sequences, FiniteSets, TLC

VARIABLES expenses, budget, now, op, args, ret

vars == <<expenses, budget, now, op, args, ret>>

-----------------------------------------------------------------------------
(* Bounds of the model *)

\* first local day of the modelled window (19716 = Monday 2023-12-25)
FirstDay == 19716
\* number of consecutive local days in the window (to 2025-03-08)
NumDays == 440

-----------------------------------------------------------------------------
(* ECMAScript Date arithmetic, as used through the Date methods *)

MsPerDay == 24 * 60 * 60 * 1000

DaysInYear(y) ==
    IF y % 4 # 0 THEN 365
    ELSE IF y % 100 # 0 THEN 366
    ELSE IF y % 400 # 0 THEN 365
    ELSE 366

DayFromYear(y) ==
    365 * (y - 1970) + ((y - 1969) \div 4) - ((y - 1901) \div 100)
        + ((y - 1601) \div 400)

YearFromDay(d) ==
    CHOOSE y \in (1970 + d \div 366)..(1971 + d \div 365) :
        DayFromYear(y) <= d /\ d < DayFromYear(y + 1)

InLeapYear(d) == IF DaysInYear(YearFromDay(d)) = 366 THEN 1 ELSE 0

DayWithinYear(d) == d - DayFromYear(YearFromDay(d))

\* first day-within-year of month m (0..11), and of the month after December
MonthStart(m, leap) ==
    CASE m = 0 -> 0
      [] m = 1 -> 31
      [] m = 2 -> 59 + leap
      [] m = 3 -> 90 + leap
      [] m = 4 -> 120 + leap
      [] m = 5 -> 151 + leap
      [] m = 6 -> 181 + leap
      [] m = 7 -> 212 + leap
      [] m = 8 -> 243 + leap
      [] m = 9 -> 273 + leap
      [] m = 10 -> 304 + leap
      [] m = 11 -> 334 + leap
      [] m = 12 -> 365 + leap

MonthFromDay(d) ==
    CHOOSE m \in 0..11 :
        /\ MonthStart(m, InLeapYear(d)) <= DayWithinYear(d)
        /\ DayWithinYear(d) < MonthStart(m + 1, InLeapYear(d))

DateFromDay(d) ==
    DayWithinYear(d) - MonthStart(MonthFromDay(d), InLeapYear(d)) + 1

WeekDay(d) == (d + 4) % 7

\* MakeDay(year, month, date): month and date may lie outside their ranges
MakeDay(year, month, date) ==
    LET ym == year + (month \div 12)
        mn == month % 12
        leap == IF DaysInYear(ym) = 366 THEN 1 ELSE 0
    IN  DayFromYear(ym) + MonthStart(mn, leap) + date - 1

\* MakeTime(hour, min, sec, ms)
MakeTime(h, m, s, milli) == ((h * 60 + m) * 60 + s) * 1000 + milli

(* Date methods *)
getFullYear(d) == YearFromDay(d.day)
getMonth(d) == MonthFromDay(d.day)
getDate(d) == DateFromDay(d.day)
getDay(d) == WeekDay(d.day)

setDate(d, date) ==
    [day |-> MakeDay(getFullYear(d), getMonth(d), date), ms |-> d.ms]

setMonth(d, month, date) ==
    [day |-> MakeDay(getFullYear(d), month, date), ms |-> d.ms]

setHours(d, h, m, s, milli) ==
    [day |-> d.day, ms |-> MakeTime(h, m, s, milli)]

\* a.getTime() <= b.getTime()
TimeLeq(a, b) == a.day < b.day \/ (a.day = b.day /\ a.ms <= b.ms)

-----------------------------------------------------------------------------
(* dateHelpers.ts *)

startOfDay(date) == setHours(date, 0, 0, 0, 0)

endOfDay(date) == setHours(date, 23, 59, 59, 999)

\* mutant: Sunday treated like the other days (diff = 1 - day)
startOfWeek_SundaySameWeek(date) ==
    LET d == setDate(date, getDate(date) + 1 - getDay(date))
    IN  setHours(d, 0, 0, 0, 0)

startOfWeek(date) ==
    LET day == getDay(date)
        diff == IF day = 0 THEN 0 - 6 ELSE 1 - day
        d == setDate(date, getDate(date) + diff)
    IN  setHours(d, 0, 0, 0, 0)

\* mutant: six days are added to the reference date, not to the week's start
endOfWeek_FromReference(date) ==
    setHours(setDate(date, getDate(date) + 6), 23, 59, 59, 999)

endOfWeek(date) ==
    LET start == startOfWeek(date)
        d == setDate(start, getDate(start) + 6)
    IN  setHours(d, 23, 59, 59, 999)

\* mutant: the day of month is reset, the time of day is kept
startOfMonth_KeepTime(date) == setDate(date, 1)

startOfMonth(date) == setHours(setDate(date, 1), 0, 0, 0, 0)

\* mutant: the month is advanced keeping the day of month, then day 0 is set
endOfMonth_DayOverflow(date) ==
    LET d == setMonth(date, getMonth(date) + 1, getDate(date))
    IN  setHours(setDate(d, 0), 23, 59, 59, 999)

endOfMonth(date) ==
    setHours(setMonth(date, getMonth(date) + 1, 0), 23, 59, 59, 999)

-----------------------------------------------------------------------------
(* budgetCalculations.ts *)

\* a nullable value: <<>> is null, <<v>> is the value v
Null == <<>>
Some(v) == <<v>>
\* JavaScript truthiness of a nullable number (null and 0 are falsy)
Truthy(x) == x # Null /\ x[1] # 0

\* exact fraction num/den with den > 0, compared with a whole number
Frac(n, d) == [num |-> n, den |-> d]
FracGeq(p, n) == p.num >= n * p.den

BUDGET_WARNING_THRESHOLD == 80

\* mutant: the thresholds themselves fall in the lower bucket
getHealthStatus_StrictThresholds(percentUsed) ==
    IF percentUsed.num > 100 * percentUsed.den THEN "over"
    ELSE IF percentUsed.num > BUDGET_WARNING_THRESHOLD * percentUsed.den
    THEN "warning"
    ELSE "safe"

getHealthStatus(percentUsed) ==
    IF FracGeq(percentUsed, 100) THEN "over"
    ELSE IF FracGeq(percentUsed, BUDGET_WARNING_THRESHOLD) THEN "warning"
    ELSE "safe"

\* exps.reduce((sum, expense) => sum + expense.amount, 0)
RECURSIVE SumAmounts(_)
SumAmounts(exps) ==
    IF exps = <<>> THEN 0
    ELSE SumAmounts(SubSeq(exps, 1, Len(exps) - 1)) + exps[Len(exps)].amount

\* mutant: only a negative limit takes the degenerate branch
getBudgetStatus_ZeroLimitDivides(limit, exps) ==
    IF limit < 0
    THEN [totalSpent |-> 0, remaining |-> 0, percentUsed |-> Frac(0, 1),
          status |-> "safe"]
    ELSE LET totalSpent == SumAmounts(exps)
         IN  [totalSpent |-> totalSpent, remaining |-> limit - totalSpent,
              percentUsed |-> Frac(totalSpent * 100, limit),
              status |-> getHealthStatus(Frac(totalSpent * 100, limit))]

\* mutant: remaining is clamped at zero
getBudgetStatus_ClampedRemaining(limit, exps) ==
    IF limit <= 0
    THEN [totalSpent |-> 0, remaining |-> 0, percentUsed |-> Frac(0, 1),
          status |-> "safe"]
    ELSE LET totalSpent == SumAmounts(exps)
         IN  [totalSpent |-> totalSpent,
              remaining |-> IF limit > totalSpent THEN limit - totalSpent
                            ELSE 0,
              percentUsed |-> Frac(totalSpent * 100, limit),
              status |-> getHealthStatus(Frac(totalSpent * 100, limit))]

getBudgetStatus(limit, exps) ==
    IF limit <= 0
    THEN [totalSpent |-> 0, remaining |-> 0, percentUsed |-> Frac(0, 1),
          status |-> "safe"]
    ELSE LET totalSpent == SumAmounts(exps)
             remaining == limit - totalSpent
             percentUsed == Frac(totalSpent * 100, limit)
         IN  [totalSpent |-> totalSpent, remaining |-> remaining,
              percentUsed |-> percentUsed,
              status |-> getHealthStatus(percentUsed)]

\* mutant: the end of the range is excluded
filterExpensesByDateRange_EndExclusive(exps, start, end) ==
    LET InRange(expense) ==
            TimeLeq(start, expense.date) /\ ~TimeLeq(end, expense.date)
    IN  SelectSeq(exps, InRange)

filterExpensesByDateRange(exps, start, end) ==
    LET InRange(expense) ==
            TimeLeq(start, expense.date) /\ TimeLeq(expense.date, end)
    IN  SelectSeq(exps, InRange)

\* mutant: a period in which nothing was spent is reported as null
getAllBudgetStatuses_NullWhenUnspent(b, exps, clock) ==
    LET todayExpenses ==
            filterExpensesByDateRange(exps, startOfDay(clock), endOfDay(clock))
        weekExpenses ==
            filterExpensesByDateRange(exps, startOfWeek(clock), endOfWeek(clock))
        monthExpenses ==
            filterExpensesByDateRange(exps, startOfMonth(clock), endOfMonth(clock))
    IN  [daily |-> getBudgetStatus(b.dailyLimit, todayExpenses),
         weekly |-> IF Truthy(b.weeklyLimit) /\ weekExpenses # <<>>
                    THEN Some(getBudgetStatus(b.weeklyLimit[1], weekExpenses))
                    ELSE Null,
         monthly |-> IF Truthy(b.monthlyLimit) /\ monthExpenses # <<>>
                     THEN Some(getBudgetStatus(b.monthlyLimit[1], monthExpenses))
                     ELSE Null]

\* clock is the value of new Date() read at the call
getAllBudgetStatuses(b, exps, clock) ==
    LET todayExpenses ==
            filterExpensesByDateRange(exps, startOfDay(clock), endOfDay(clock))
        weekExpenses ==
            filterExpensesByDateRange(exps, startOfWeek(clock), endOfWeek(clock))
        monthExpenses ==
            filterExpensesByDateRange(exps, startOfMonth(clock), endOfMonth(clock))
    IN  [daily |-> getBudgetStatus(b.dailyLimit, todayExpenses),
         weekly |-> IF Truthy(b.weeklyLimit)
                    THEN Some(getBudgetStatus(b.weeklyLimit[1], weekExpenses))
                    ELSE Null,
         monthly |-> IF Truthy(b.monthlyLimit)
                     THEN Some(getBudgetStatus(b.monthlyLimit[1], monthExpenses))
                     ELSE Null]

getDateRangeForPeriod(period, ref) ==
    CASE period = "daily" -> [start |-> startOfDay(ref), end |-> endOfDay(ref)]
      [] period = "weekly" -> [start |-> startOfWeek(ref), end |-> endOfWeek(ref)]
      [] period = "monthly" -> [start |-> startOfMonth(ref), end |-> endOfMonth(ref)]

\* categoryMap after the forEach: one [category, amount] entry per category,
\* in the order the categories first occur (a Map keeps insertion order)
RECURSIVE aggregateByCategory(_)
aggregateByCategory(filtered) ==
    IF filtered = <<>> THEN <<>>
    ELSE LET categoryMap ==
                 aggregateByCategory(SubSeq(filtered, 1, Len(filtered) - 1))
             expense == filtered[Len(filtered)]
             has == \E i \in 1..Len(categoryMap) :
                        categoryMap[i].category = expense.category
         IN  IF has
             THEN [i \in 1..Len(categoryMap) |->
                      IF categoryMap[i].category = expense.category
                      THEN [category |-> expense.category,
                            amount |-> categoryMap[i].amount + expense.amount]
                      ELSE categoryMap[i]]
             ELSE Append(categoryMap,
                         [category |-> expense.category,
                          amount |-> 0 + expense.amount])

\* mutant: items.sort((a, b) => a.amount - b.amount)
sortByAmountDesc_Ascending(items) ==
    LET n == Len(items)
        rank(i) == Cardinality({j \in 1..n :
                        \/ items[j].amount < items[i].amount
                        \/ (items[j].amount = items[i].amount /\ j < i)}) + 1
    IN  [k \in 1..n |-> items[CHOOSE i \in 1..n : rank(i) = k]]

\* items.sort((a, b) => b.amount - a.amount): a stable sort, so items of
\* equal amount keep their order
sortByAmountDesc(items) ==
    LET n == Len(items)
        rank(i) == Cardinality({j \in 1..n :
                        \/ items[j].amount > items[i].amount
                        \/ (items[j].amount = items[i].amount /\ j < i)}) + 1
    IN  [k \in 1..n |-> items[CHOOSE i \in 1..n : rank(i) = k]]

\* mutant: the range is used as passed, without startOfDay and endOfDay
getCategorySummary_RawBounds(exps, startDate, endDate) ==
    LET filtered == filterExpensesByDateRange(exps, startDate, endDate)
    IN  IF Len(filtered) = 0
        THEN [total |-> 0, categories |-> <<>>]
        ELSE LET categoryMap == aggregateByCategory(filtered)
                 total == SumAmounts(filtered)
                 items == [i \in 1..Len(categoryMap) |->
                             [category |-> categoryMap[i].category,
                              amount |-> categoryMap[i].amount,
                              percent |-> IF total > 0
                                          THEN Frac(categoryMap[i].amount * 100, total)
                                          ELSE Frac(0, 1)]]
             IN  [total |-> total, categories |-> sortByAmountDesc(items)]

\* mutant: the total is taken over the whole list, not over the filtered one
getCategorySummary_TotalOfAll(exps, startDate, endDate) ==
    LET filtered ==
            filterExpensesByDateRange(exps, startOfDay(startDate), endOfDay(endDate))
    IN  IF Len(filtered) = 0
        THEN [total |-> 0, categories |-> <<>>]
        ELSE LET categoryMap == aggregateByCategory(filtered)
                 total == SumAmounts(exps)
                 items == [i \in 1..Len(categoryMap) |->
                             [category |-> categoryMap[i].category,
                              amount |-> categoryMap[i].amount,
                              percent |-> IF total > 0
                                          THEN Frac(categoryMap[i].amount * 100, total)
                                          ELSE Frac(0, 1)]]
             IN  [total |-> total, categories |-> sortByAmountDesc(items)]

getCategorySummary(exps, startDate, endDate) ==
    LET filtered ==
            filterExpensesByDateRange(exps, startOfDay(startDate), endOfDay(endDate))
    IN  IF Len(filtered) = 0
        THEN [total |-> 0, categories |-> <<>>]
        ELSE LET categoryMap == aggregateByCategory(filtered)
                 total == SumAmounts(filtered)
                 items == [i \in 1..Len(categoryMap) |->
                             [category |-> categoryMap[i].category,
                              amount |-> categoryMap[i].amount,
                              percent |-> IF total > 0
                                          THEN Frac(categoryMap[i].amount * 100, total)
                                          ELSE Frac(0, 1)]]
             IN  [total |-> total, categories |-> sortByAmountDesc(items)]

-----------------------------------------------------------------------------
(* streakCalculations.ts *)

\* a string is the sequence of its character codes: "0".."9" are 48..57
\* and "-" is 45
RECURSIVE String(_)
String(n) ==
    IF n < 10 THEN <<48 + n>> ELSE String(n \div 10) \o <<48 + (n % 10)>>

\* s.padStart(2, '0')
padStart2(s) == IF Len(s) < 2 THEN <<48>> \o s ELSE s

\* a < b on strings: the order of the first code that differs, a proper
\* prefix coming first
StringLess(a, b) ==
    \E i \in 1..(Len(b)) :
        /\ \A j \in 1..(i - 1) : j <= Len(a) /\ a[j] = b[j]
        /\ (i > Len(a) \/ a[i] < b[i])

toDateKey(date) ==
    String(getFullYear(date)) \o <<45>>
        \o padStart2(String(getMonth(date) + 1)) \o <<45>>
        \o padStart2(String(getDate(date)))

\* mutant: dailyTotals.set(dateKey, expense.amount), the day's last expense
\* replacing the running total
RECURSIVE dailyTotalsGet_Overwrite(_, _)
dailyTotalsGet_Overwrite(exps, dateKey) ==
    IF exps = <<>> THEN 0
    ELSE IF toDateKey(exps[Len(exps)].date) = dateKey
         THEN exps[Len(exps)].amount
         ELSE dailyTotalsGet_Overwrite(SubSeq(exps, 1, Len(exps) - 1), dateKey)

\* dailyTotals.get(dateKey) ?? 0, for the map built from exps
RECURSIVE dailyTotalsGet(_, _)
dailyTotalsGet(exps, dateKey) ==
    IF exps = <<>> THEN 0
    ELSE dailyTotalsGet(SubSeq(exps, 1, Len(exps) - 1), dateKey)
            + (IF toDateKey(exps[Len(exps)].date) = dateKey
               THEN exps[Len(exps)].amount ELSE 0)

\* mutant: the budget's first day is not counted
beforeStart_Inclusive(dateKey, startKey) ==
    dateKey = startKey \/ StringLess(dateKey, startKey)

\* mutant: no day is before the budget's start
beforeStart_Never(dateKey, startKey) == FALSE

\* dateKey < startKey
beforeStart(dateKey, startKey) == StringLess(dateKey, startKey)

\* mutant: a day exactly at the limit breaks the streak
overLimit_AtLimit(dayTotal, dailyLimit) == dayTotal >= dailyLimit

\* mutant: no total is over the limit
overLimit_Never(dayTotal, dailyLimit) == FALSE

\* dayTotal > dailyLimit
overLimit(dayTotal, dailyLimit) == dayTotal > dailyLimit

\* the for loop from index i on: the number of days it still counts
RECURSIVE streakLoop(_, _, _, _, _, _)
streakLoop(exps, dailyLimit, startKey, maxLookbackDays, today, i) ==
    IF ~(i < maxLookbackDays) THEN 0
    ELSE LET checkDate == setDate(today, getDate(today) - i)
             dateKey == toDateKey(checkDate)
             dayTotal == dailyTotalsGet(exps, dateKey)
         IN  IF beforeStart(dateKey, startKey) THEN 0
             ELSE IF overLimit(dayTotal, dailyLimit) THEN 0
             ELSE 1 + streakLoop(exps, dailyLimit, startKey, maxLookbackDays,
                                 today, i + 1)

\* mutant: today counts as active only strictly under the limit
todayIsActive_Strict(exps, dailyLimit, today) ==
    dailyTotalsGet(exps, toDateKey(today)) < dailyLimit

\* todayTotal <= dailyLimit
todayIsActive(exps, dailyLimit, today) ==
    dailyTotalsGet(exps, toDateKey(today)) <= dailyLimit

\* today is the value of new Date() read at the call
calculateBudgetStreak(exps, dailyLimit, budgetStartDate, maxLookbackDays, today) ==
    IF dailyLimit <= 0
    THEN [streakDays |-> 0, isActiveToday |-> FALSE]
    ELSE [streakDays |->
              streakLoop(exps, dailyLimit, toDateKey(budgetStartDate),
                         maxLookbackDays, today, 0),
          isActiveToday |-> todayIsActive(exps, dailyLimit, today)]

-----------------------------------------------------------------------------
(* Inputs *)

Periods == {"daily", "weekly", "monthly"}

Days == FirstDay..(FirstDay + NumDays - 1)

\* times of day tried: midnight, 1 ms later, noon, the last millisecond
DayTimes == {0, 1, MsPerDay \div 2, MsPerDay - 1}

Instants == [day : Days, ms : DayTimes]

\* the instant delta milliseconds (|delta| < MsPerDay) after d
AddMs(d, delta) ==
    LET t == d.ms + delta
    IN  IF t < 0 THEN [day |-> d.day - 1, ms |-> t + MsPerDay]
        ELSE IF t >= MsPerDay THEN [day |-> d.day + 1, ms |-> t - MsPerDay]
        ELSE [day |-> d.day, ms |-> t]

NoBudget == [dailyLimit |-> 1, weeklyLimit |-> Null, monthlyLimit |-> Null]

Expense(a, c, d) == [amount |-> a, category |-> c, date |-> d]

-----------------------------------------------------------------------------
(* Calendar ranges: getDateRangeForPeriod at every reference instant, then  *)
(* the category details screen's filter over the range it returned.        *)

InitRange ==
    /\ now \in Instants
    /\ expenses = <<>>
    /\ budget = NoBudget
    /\ op = "none"
    /\ args = <<>>
    /\ ret = <<>>

CallGetDateRangeForPeriod ==
    /\ op = "none"
    /\ \E period \in Periods :
        /\ op' = "getDateRangeForPeriod"
        /\ args' = <<period, now>>
        /\ ret' = getDateRangeForPeriod(period, now)
    /\ UNCHANGED <<expenses, budget, now>>

\* a snapshot holding one expense dated at or next to a bound of the range
CallFilterExpensesByDateRange ==
    /\ op = "getDateRangeForPeriod"
    /\ \E probe \in {AddMs(ret.start, 0 - 1), ret.start, now, ret.end,
                     AddMs(ret.end, 1)} :
        /\ expenses' = <<Expense(1, "food", probe)>>
        /\ op' = "filterExpensesByDateRange"
        /\ args' = <<args[1], ret.start, ret.end>>
        /\ ret' = filterExpensesByDateRange(expenses', ret.start, ret.end)
    /\ UNCHANGED <<budget, now>>

NextRange == CallGetDateRangeForPeriod \/ CallFilterExpensesByDateRange

SpecRange == InitRange /\ [][NextRange]_vars

-----------------------------------------------------------------------------
(* Budget status calculator: a period's expense list grows one expense at  *)
(* a time and getBudgetStatus is applied to it with any limit.             *)

\* longest expense list
MaxExpenses == 3

\* amounts whose sums fall below, on and above 80 % and 100 % of the limits
Amounts == {1, 10, 39, 40, 50}

\* limits: negative, zero, the least valid limit, and two round ones
Limits == {0 - 5, 0, 1, 50, 100}

\* the instant every expense of this specification is dated at
Noon == [day |-> FirstDay, ms |-> MsPerDay \div 2]

Init ==
    /\ expenses = <<>>
    /\ budget = NoBudget
    /\ now = Noon
    /\ op = "none"
    /\ args = <<>>
    /\ ret = <<>>

AddExpense ==
    /\ Len(expenses) < MaxExpenses
    /\ \E a \in Amounts :
        expenses' = Append(expenses, Expense(a, "food", now))
    /\ op' = "addExpense"
    /\ UNCHANGED <<budget, now, args, ret>>

CallGetBudgetStatus ==
    /\ \E limit \in Limits :
        /\ args' = <<limit>>
        /\ ret' = getBudgetStatus(limit, expenses)
    /\ op' = "getBudgetStatus"
    /\ UNCHANGED <<expenses, budget, now>>

Next == AddExpense \/ CallGetBudgetStatus

Spec == Init /\ [][Next]_vars

\* the sum of the amounts of a list, taken from its head
RECURSIVE AmountSum(_)
AmountSum(exps) ==
    IF exps = <<>> THEN 0 ELSE Head(exps).amount + AmountSum(Tail(exps))

C2_StatusOfNonPositiveLimit ==
    (op = "getBudgetStatus" /\ args[1] <= 0) =>
        /\ ret.totalSpent = 0
        /\ ret.remaining = 0
        /\ ret.percentUsed.num = 0 /\ ret.percentUsed.den # 0
        /\ ret.status = "safe"

\* a negative limit with a non-empty expense list
C2_Witness ==
    /\ op = "getBudgetStatus" /\ args[1] < 0
    /\ AmountSum(expenses) > 0
    /\ ret.status = "safe" /\ ret.totalSpent = 0

-----------------------------------------------------------------------------
(* All statuses: a snapshot of expenses dated around the clock is built,   *)
(* then getAllBudgetStatuses is applied to the budget and the snapshot.    *)

\* longest snapshot passed to getAllBudgetStatuses
MaxSnapshot == 2

\* an expense is dated at most this many days before or after the clock
DaySpread == 4

\* the amount of the i-th expense of a snapshot: every subset of a snapshot
\* has its own sum
AmountAt(i) == CASE i = 1 -> 60 [] i = 2 -> 10 [] OTHER -> 5

\* clocks: Mon 2024-01-01 00:00:00.000 (first of month and year),
\* Wed 2024-01-31 noon (the week runs into February), Thu 2024-02-29 noon,
\* Sun 2024-03-31 23:59:59.999 (last day of week and month)
Clocks ==
    { [day |-> 19723, ms |-> 0],
      [day |-> 19753, ms |-> MsPerDay \div 2],
      [day |-> 19782, ms |-> MsPerDay \div 2],
      [day |-> 19813, ms |-> MsPerDay - 1] }

\* budgets as the budget service stores them: every limit present is >= 1
Budgets ==
    { [dailyLimit |-> 50, weeklyLimit |-> Some(300), monthlyLimit |-> Null],
      [dailyLimit |-> 50, weeklyLimit |-> Null, monthlyLimit |-> Some(1000)],
      [dailyLimit |-> 1, weeklyLimit |-> Some(60), monthlyLimit |-> Some(70)] }

\* first and last millisecond of every day within DaySpread of the clock
DatesAround(clock) ==
    [day : (clock.day - DaySpread)..(clock.day + DaySpread),
     ms : {0, MsPerDay - 1}]

InitAll ==
    /\ expenses = <<>>
    /\ budget \in Budgets
    /\ now \in Clocks
    /\ op = "none"
    /\ args = <<>>
    /\ ret = <<>>

AddDatedExpense ==
    /\ op \in {"none", "addExpense"}
    /\ Len(expenses) < MaxSnapshot
    /\ \E d \in DatesAround(now) :
        expenses' =
            Append(expenses, Expense(AmountAt(Len(expenses) + 1), "food", d))
    /\ op' = "addExpense"
    /\ UNCHANGED <<budget, now, args, ret>>

CallGetAllBudgetStatuses ==
    /\ op \in {"none", "addExpense"}
    /\ op' = "getAllBudgetStatuses"
    /\ args' = <<budget, expenses>>
    /\ ret' = getAllBudgetStatuses(budget, expenses, now)
    /\ UNCHANGED <<expenses, budget, now>>

NextAll == AddDatedExpense \/ CallGetAllBudgetStatuses

SpecAll == InitAll /\ [][NextAll]_vars

\* number of the Monday-to-Sunday week a day lies in (day 4 was a Monday)
WeekOf(day) == (day - 4) \div 7

OnDayOf(clock, e) == e.date.day = clock.day
InWeekOf(clock, e) == WeekOf(e.date.day) = WeekOf(clock.day)
InMonthOf(clock, e) ==
    /\ getFullYear(e.date) = getFullYear(clock)
    /\ getMonth(e.date) = getMonth(clock)

\* the sum of a list of numbers
RECURSIVE SumInts(_)
SumInts(ns) == IF ns = <<>> THEN 0 ELSE Head(ns) + SumInts(Tail(ns))

\* the sums of the amounts of the expenses dated in the clock's day, week, month
DaySum(exps, clock) ==
    SumInts([i \in 1..Len(exps) |->
                IF OnDayOf(clock, exps[i]) THEN exps[i].amount ELSE 0])
WeekSum(exps, clock) ==
    SumInts([i \in 1..Len(exps) |->
                IF InWeekOf(clock, exps[i]) THEN exps[i].amount ELSE 0])
MonthSum(exps, clock) ==
    SumInts([i \in 1..Len(exps) |->
                IF InMonthOf(clock, exps[i]) THEN exps[i].amount ELSE 0])

\* C3: weekly is null iff the budget has no weeklyLimit and monthly is null
\* iff it has no monthlyLimit; with the limit present the result is a status
\* (totalSpent 0 when nothing was spent in the period); daily is a status.
C3_NullIffNoLimit ==
    op = "getAllBudgetStatuses" =>
        /\ (ret.weekly = Null <=> budget.weeklyLimit = Null)
        /\ (ret.monthly = Null <=> budget.monthlyLimit = Null)
        /\ (budget.weeklyLimit # Null =>
                /\ Len(ret.weekly) = 1
                /\ ret.weekly[1].totalSpent >= 0
                /\ ret.weekly[1].status \in {"safe", "warning", "over"})
        /\ (budget.monthlyLimit # Null =>
                /\ Len(ret.monthly) = 1
                /\ ret.monthly[1].totalSpent >= 0
                /\ ret.monthly[1].status \in {"safe", "warning", "over"})
        /\ ret.daily.totalSpent >= 0
        /\ ret.daily.status \in {"safe", "warning", "over"}

\* expenses exist but none in the current week: weekly is a status with
\* totalSpent 0 while monthly, which has no limit, is null
C3_Witness ==
    /\ op = "getAllBudgetStatuses"
    /\ expenses # <<>>
    /\ budget.weeklyLimit # Null /\ budget.monthlyLimit = Null
    /\ ret.weekly # Null /\ ret.weekly[1].totalSpent = 0
    /\ ret.monthly = Null

\* C4: with positive limits daily.totalSpent is the sum of exactly the
\* expenses dated on the clock's calendar day, weekly.totalSpent of those
\* in its Monday-Sunday week, monthly.totalSpent of those in its calendar
\* month; budget {50, 300, null} with 60 spent today gives daily
\* {60, -10, 120 %, 'over'} and monthly null.
C4_PeriodTotals ==
    op = "getAllBudgetStatuses" =>
        /\ ret.daily.totalSpent = DaySum(expenses, now)
        /\ (budget.weeklyLimit # Null =>
                ret.weekly[1].totalSpent = WeekSum(expenses, now))
        /\ (budget.monthlyLimit # Null =>
                ret.monthly[1].totalSpent = MonthSum(expenses, now))
        /\ ((/\ budget.dailyLimit = 50
             /\ budget.weeklyLimit = Some(300)
             /\ budget.monthlyLimit = Null
             /\ DaySum(expenses, now) = 60) =>
                /\ ret.daily.totalSpent = 60
                /\ ret.daily.remaining = 0 - 10
                /\ ret.daily.percentUsed.num = 120 * ret.daily.percentUsed.den
                /\ ret.daily.status = "over"
                /\ ret.monthly = Null)

\* the example, with a second expense in the same week but on another day
C4_Witness ==
    /\ op = "getAllBudgetStatuses"
    /\ budget.dailyLimit = 50 /\ budget.weeklyLimit = Some(300)
    /\ budget.monthlyLimit = Null
    /\ ret.daily.totalSpent = 60 /\ ret.daily.status = "over"
    /\ ret.weekly[1].totalSpent = 70
    /\ ret.monthly = Null

-----------------------------------------------------------------------------
(* Category summary: a snapshot of expenses of several categories, dated   *)
(* inside and outside the range, then getCategorySummary over the range.   *)

\* longest snapshot passed to getCategorySummary
MaxItems == 3

Categories == {"food", "transport", "bills"}

\* the summary screen's ranges: today alone, and today with tomorrow
SummaryRanges ==
    { <<Noon, Noon>>,
      <<Noon, [day |-> Noon.day + 1, ms |-> 0]>> }

\* the last millisecond of yesterday, the first of today, tomorrow noon
SummaryDates ==
    { [day |-> Noon.day - 1, ms |-> MsPerDay - 1],
      [day |-> Noon.day, ms |-> 0],
      [day |-> Noon.day + 1, ms |-> MsPerDay \div 2] }

InitSummary ==
    /\ expenses = <<>>
    /\ budget = NoBudget
    /\ now = Noon
    /\ op = "none"
    /\ args = <<>>
    /\ ret = <<>>

AddCategoryExpense ==
    /\ op \in {"none", "addExpense"}
    /\ Len(expenses) < MaxItems
    /\ \E a \in {10, 20}, c \in Categories, d \in SummaryDates :
        expenses' = Append(expenses, Expense(a, c, d))
    /\ op' = "addExpense"
    /\ UNCHANGED <<budget, now, args, ret>>

CallGetCategorySummary ==
    /\ op \in {"none", "addExpense"}
    /\ \E r \in SummaryRanges :
        /\ args' = r
        /\ ret' = getCategorySummary(expenses, r[1], r[2])
    /\ op' = "getCategorySummary"
    /\ UNCHANGED <<expenses, budget, now>>

NextSummary == AddCategoryExpense \/ CallGetCategorySummary

SpecSummary == InitSummary /\ [][NextSummary]_vars

\* an expense matches a range when its calendar day lies between the
\* calendar days of the bounds
Matches(e, startDate, endDate) ==
    startDate.day <= e.date.day /\ e.date.day <= endDate.day

\* the sum of the amounts of the matching expenses of category c
MatchSum(exps, c, startDate, endDate) ==
    SumInts([i \in 1..Len(exps) |->
                IF exps[i].category = c /\ Matches(exps[i], startDate, endDate)
                THEN exps[i].amount ELSE 0])

MatchTotal(exps, startDate, endDate) ==
    SumInts([i \in 1..Len(exps) |->
                IF Matches(exps[i], startDate, endDate)
                THEN exps[i].amount ELSE 0])

AnyMatch(exps, startDate, endDate) ==
    \E i \in 1..Len(exps) : Matches(exps[i], startDate, endDate)

\* C8: when at least one expense matches, the categories' amounts sum to
\* total, total is the sum of the matching expenses' amounts, and the
\* percents sum to 100 when total > 0.
C8_SummaryTotals ==
    (op = "getCategorySummary" /\ AnyMatch(expenses, args[1], args[2])) =>
        LET cats == ret.categories
            n == Len(cats)
        IN  /\ SumInts([i \in 1..n |-> cats[i].amount]) = ret.total
            /\ ret.total = MatchTotal(expenses, args[1], args[2])
            /\ (ret.total > 0 =>
                    /\ \A i \in 1..n : cats[i].percent.den = ret.total
                    /\ SumInts([i \in 1..n |-> cats[i].percent.num])
                           = 100 * ret.total)

\* two categories in the range, and one expense outside it
C8_Witness ==
    /\ op = "getCategorySummary"
    /\ Len(ret.categories) = 2
    /\ ret.total > 0
    /\ ret.total < AmountSum(expenses)

\* C9: one item for each category with a matching expense and none for any
\* other; an item's amount is the sum of its category's matching expenses
\* and its percent is amount/total*100; items are in non-increasing order
\* of amount; with no matching expense the result is {total: 0,
\* categories: []}.
C9_SummaryItems ==
    op = "getCategorySummary" =>
        LET cats == ret.categories
            n == Len(cats)
        IN  /\ \A c \in Categories :
                (MatchSum(expenses, c, args[1], args[2]) > 0) <=>
                    (\E i \in 1..n : cats[i].category = c)
            /\ \A i, j \in 1..n :
                cats[i].category = cats[j].category => i = j
            /\ \A i \in 1..n :
                /\ cats[i].amount =
                       MatchSum(expenses, cats[i].category, args[1], args[2])
                /\ cats[i].percent.den > 0
                /\ cats[i].percent.num * ret.total =
                       cats[i].amount * 100 * cats[i].percent.den
            /\ \A i \in 1..n : i < n => cats[i].amount >= cats[i + 1].amount
            /\ (~AnyMatch(expenses, args[1], args[2]) =>
                    ret.total = 0 /\ n = 0)

\* the category met last has the larger amount and comes first
C9_Witness ==
    /\ op = "getCategorySummary"
    /\ Len(ret.categories) = 2
    /\ ret.categories[1].amount > ret.categories[2].amount
    /\ ret.categories[1].category = expenses[Len(expenses)].category
    /\ ret.categories[2].category = expenses[1].category

-----------------------------------------------------------------------------
(* Category summary over ranges whose bounds are arbitrary instants        *)

\* days of the bounds, and times of day of the bounds
BoundDays == {Noon.day, Noon.day + 1}
BoundTimes == {0, MsPerDay \div 2, MsPerDay - 1}

\* expense dates: first and last millisecond of the days from the day before
\* the earliest bound to the day after the latest
RangeDates == [day : (Noon.day - 1)..(Noon.day + 2), ms : {0, MsPerDay - 1}]

\* the category of the i-th expense of a snapshot
CategoryAt(i) == IF i % 2 = 1 THEN "food" ELSE "transport"

InitSummaryRange ==
    /\ expenses = <<>>
    /\ budget = NoBudget
    /\ now = Noon
    /\ op = "none"
    /\ args = <<>>
    /\ ret = <<>>

AddRangeExpense ==
    /\ op \in {"none", "addExpense"}
    /\ Len(expenses) < MaxSnapshot
    /\ \E d \in RangeDates :
        expenses' =
            Append(expenses,
                   Expense(AmountAt(Len(expenses) + 1),
                           CategoryAt(Len(expenses) + 1), d))
    /\ op' = "addExpense"
    /\ UNCHANGED <<budget, now, args, ret>>

CallGetCategorySummaryOfRange ==
    /\ op \in {"none", "addExpense"}
    /\ \E startDate \in [day : BoundDays, ms : BoundTimes],
          endDate \in [day : BoundDays, ms : BoundTimes] :
        /\ args' = <<startDate, endDate>>
        /\ ret' = getCategorySummary(expenses, startDate, endDate)
    /\ op' = "getCategorySummary"
    /\ UNCHANGED <<expenses, budget, now>>

NextSummaryRange == AddRangeExpense \/ CallGetCategorySummaryOfRange

SpecSummaryRange == InitSummaryRange /\ [][NextSummaryRange]_vars

\* C10: an expense is included iff its calendar day lies between the
\* calendar days of startDate and endDate, inclusive; the times of day of
\* the bounds have no effect on the summary.
C10_WholeDays ==
    op = "getCategorySummary" =>
        /\ ret.total = MatchTotal(expenses, args[1], args[2])
        /\ \A c \in {"food", "transport"} :
            LET s == MatchSum(expenses, c, args[1], args[2])
            IN  /\ s > 0 => \E i \in 1..Len(ret.categories) :
                                /\ ret.categories[i].category = c
                                /\ ret.categories[i].amount = s
                /\ s = 0 => \A i \in 1..Len(ret.categories) :
                                ret.categories[i].category # c
        /\ \A t1, t2 \in BoundTimes :
            ret = getCategorySummary(expenses,
                                     [day |-> args[1].day, ms |-> t1],
                                     [day |-> args[2].day, ms |-> t2])

\* the range runs from the last millisecond of a day to the first of the
\* same day; an expense of that day's morning and one of its evening are in
C10_Witness ==
    /\ op = "getCategorySummary"
    /\ args[1].day = args[2].day
    /\ args[1].ms = MsPerDay - 1 /\ args[2].ms = 0
    /\ Len(expenses) = 2
    /\ expenses[1].date = [day |-> args[1].day, ms |-> 0]
    /\ expenses[2].date = [day |-> args[1].day, ms |-> MsPerDay - 1]
    /\ ret.total = AmountSum(expenses)

-----------------------------------------------------------------------------
(* Budget streak: a snapshot of expenses dated on today and the days       *)
(* before, then calculateBudgetStreak with a limit, a budget start and a   *)
(* lookback.                                                               *)

\* longest snapshot passed to calculateBudgetStreak
MaxStreakExpenses == 2

\* today: Tue 2024-01-02 (the year began yesterday) and Sat 2024-03-02
\* (two days after 29 February), at noon
StreakClocks ==
    { [day |-> 19724, ms |-> MsPerDay \div 2],
      [day |-> 19784, ms |-> MsPerDay \div 2] }

\* an expense is dated this many days before today
StreakOffsets == 0..3

\* the budget starts this many days before today (-1: tomorrow), late in
\* the evening
StartOffsets == {0 - 1, 0, 1, 2, 4}

\* daily limits: none, a limit one expense of 30 reaches exactly, and one
\* that 30 is under and 60 and 30 + 30 are over
DailyLimits == {0 - 5, 0, 30, 50}

\* lookbacks: none, today alone, three days, and the default
Lookbacks == {0, 1, 3, 365}

\* the time of day of the i-th expense of a snapshot
TimeAt(i) == IF i % 2 = 1 THEN 0 ELSE MsPerDay - 1

InitStreak ==
    /\ expenses = <<>>
    /\ budget = NoBudget
    /\ now \in StreakClocks
    /\ op = "none"
    /\ args = <<>>
    /\ ret = <<>>

AddStreakExpense ==
    /\ op \in {"none", "addExpense"}
    /\ Len(expenses) < MaxStreakExpenses
    /\ \E a \in {30, 60}, k \in StreakOffsets :
        expenses' =
            Append(expenses,
                   Expense(a, "food",
                           [day |-> now.day - k,
                            ms |-> TimeAt(Len(expenses) + 1)]))
    /\ op' = "addExpense"
    /\ UNCHANGED <<budget, now, args, ret>>

CallCalculateBudgetStreak ==
    /\ op \in {"none", "addExpense"}
    /\ \E dailyLimit \in DailyLimits, k \in StartOffsets,
          maxLookbackDays \in Lookbacks :
        LET budgetStartDate == [day |-> now.day - k, ms |-> MsPerDay - 1]
        IN  /\ args' = <<dailyLimit, budgetStartDate, maxLookbackDays>>
            /\ ret' = calculateBudgetStreak(expenses, dailyLimit,
                                            budgetStartDate, maxLookbackDays,
                                            now)
    /\ op' = "calculateBudgetStreak"
    /\ UNCHANGED <<expenses, budget, now>>

NextStreak == AddStreakExpense \/ CallCalculateBudgetStreak

SpecStreak == InitStreak /\ [][NextStreak]_vars

\* the total of the expenses dated on a calendar day
DayAmount(exps, day) ==
    SumInts([i \in 1..Len(exps) |->
                IF exps[i].date.day = day THEN exps[i].amount ELSE 0])

\* day today-i is in the streak: not before the budget's first day and its
\* total within the limit
StreakDayOk(i) ==
    /\ now.day - i >= args[2].day
    /\ DayAmount(expenses, now.day - i) <= args[1]

StreakCall == op = "calculateBudgetStreak"

\* C11: for dailyLimit > 0, streakDays is the largest k <= maxLookbackDays
\* such that every day today-i, 0 <= i < k, is not before the budget's start
\* day and has a total within dailyLimit; the first day over the limit or
\* before the start ends the count.
C11_StreakDays ==
    (StreakCall /\ args[1] > 0) =>
        /\ ret.streakDays \in 0..args[3]
        /\ \A i \in 0..(ret.streakDays - 1) : StreakDayOk(i)
        /\ (ret.streakDays < args[3] => ~StreakDayOk(ret.streakDays))

\* yesterday is over the limit, the day before is not: only today counts
C11_Witness ==
    /\ StreakCall /\ args[1] = 50 /\ args[3] = 365
    /\ args[2].day = now.day - 4
    /\ DayAmount(expenses, now.day - 1) = 60
    /\ DayAmount(expenses, now.day - 2) = 0
    /\ ret.streakDays = 1

Min(a, b) == IF a <= b THEN a ELSE b

\* every day from the budget's start day to today has a total of 0
NoSpendingSinceStart ==
    \A day \in args[2].day..now.day : DayAmount(expenses, day) = 0

\* C12 as stated, for every dailyLimit and every budget start: if every day
\* from the budget start to today has total 0, streakDays is
\* min(daysSinceStart + 1, maxLookbackDays) and isActiveToday is true.
C12_ZeroTotalsAnyInput ==
    (StreakCall /\ NoSpendingSinceStart) =>
        /\ ret.streakDays = Min(now.day - args[2].day + 1, args[3])
        /\ ret.isActiveToday

\* C12 (amended): for dailyLimit > 0 and a budget start day not after today,
\* if every day from the budget start to today has total 0, streakDays is
\* min(daysSinceStart + 1, maxLookbackDays) and isActiveToday is true.
C12_ZeroTotals ==
    (StreakCall /\ args[1] > 0 /\ args[2].day <= now.day
        /\ NoSpendingSinceStart) =>
        /\ ret.streakDays = Min(now.day - args[2].day + 1, args[3])
        /\ ret.isActiveToday

\* nothing spent since the budget began two days ago, 60 spent the day
\* before it began: the streak is the three days of the budget
C12_Witness ==
    /\ StreakCall /\ args[1] = 50 /\ args[3] = 365
    /\ args[2].day = now.day - 2
    /\ NoSpendingSinceStart
    /\ DayAmount(expenses, now.day - 3) = 60
    /\ ret.streakDays = 3 /\ ret.isActiveToday

\* yesterday's total is over the limit and today's is not
BrokenYesterday ==
    /\ DayAmount(expenses, now.day - 1) > args[1]
    /\ DayAmount(expenses, now.day) <= args[1]

\* C13 as stated, for every dailyLimit, budget start and lookback: if
\* yesterday's total exceeds dailyLimit and today's does not, streakDays is 1
\* and isActiveToday is true, whatever the older days hold.
C13_BrokenYesterdayAnyInput ==
    (StreakCall /\ BrokenYesterday) =>
        ret.streakDays = 1 /\ ret.isActiveToday

\* C13 (amended): for dailyLimit > 0, maxLookbackDays >= 1 and a budget start
\* day not after today, if yesterday's total exceeds dailyLimit and today's
\* does not, streakDays is 1 and isActiveToday is true, whatever the older
\* days hold.
C13_BrokenYesterday ==
    (StreakCall /\ args[1] > 0 /\ args[3] >= 1 /\ args[2].day <= now.day
        /\ BrokenYesterday) =>
        ret.streakDays = 1 /\ ret.isActiveToday

\* today is exactly at the limit, yesterday over it, the budget started
\* four days ago
C13_Witness ==
    /\ StreakCall /\ args[1] = 30 /\ args[3] = 365
    /\ args[2].day = now.day - 4
    /\ DayAmount(expenses, now.day) = 30
    /\ DayAmount(expenses, now.day - 1) = 60
    /\ ret.streakDays = 1 /\ ret.isActiveToday

\* C14: isActiveToday is true exactly when dailyLimit > 0 and today's total
\* is at most dailyLimit, whatever the budget start, the lookback and the
\* other days are; for dailyLimit <= 0 the result is streakDays 0 and
\* isActiveToday false.
C14_ActiveToday ==
    StreakCall =>
        /\ ret.isActiveToday
              <=> (args[1] > 0 /\ DayAmount(expenses, now.day) <= args[1])
        /\ (args[1] <= 0 =>
               ret = [streakDays |-> 0, isActiveToday |-> FALSE])

\* today is exactly at the limit and active, although the budget starts
\* tomorrow, nothing is looked back at and yesterday was over the limit
C14_Witness ==
    /\ StreakCall /\ args[1] = 30 /\ args[3] = 0
    /\ args[2].day = now.day + 1
    /\ DayAmount(expenses, now.day) = 30
    /\ DayAmount(expenses, now.day - 1) = 60
    /\ ret = [streakDays |-> 0, isActiveToday |-> TRUE]

-----------------------------------------------------------------------------
(* Calendar facts the range claims are stated with *)

\* day 4 (1970-01-05) was a Monday, day 3 a Sunday
IsMonday(day) == (day - 4) % 7 = 0
IsSunday(day) == (day - 3) % 7 = 0

IsLeap(y) == (y % 4 = 0 /\ y % 100 # 0) \/ y % 400 = 0

\* length of month m (0 = January) of year y
MonthLength(y, m) ==
    IF m = 1 THEN (IF IsLeap(y) THEN 29 ELSE 28)
    ELSE IF m \in {3, 5, 8, 10} THEN 30
    ELSE 31

RangeOf(period) == op = "getDateRangeForPeriod" /\ args[1] = period

\* C5: the weekly range starts at midnight of the Monday on or before the
\* reference date and ends at 23:59:59.999 of the Sunday six days later; it
\* contains the reference date; for a Sunday reference the start is six days
\* earlier.
C5_WeekRange ==
    RangeOf("weekly") =>
        /\ ret.start.ms = 0
        /\ IsMonday(ret.start.day)
        /\ ret.start.day <= now.day
        /\ now.day <= ret.start.day + 6
        /\ ret.end.day = ret.start.day + 6
        /\ IsSunday(ret.end.day)
        /\ ret.end.ms = MsPerDay - 1
        /\ TimeLeq(ret.start, now) /\ TimeLeq(now, ret.end)
        /\ (IsSunday(now.day) => ret.start.day = now.day - 6)

\* a Sunday reference whose week began in the previous year
C5_Witness ==
    /\ RangeOf("weekly")
    /\ IsSunday(now.day)
    /\ ret.start.day = now.day - 6
    /\ getFullYear(ret.start) # getFullYear(now)

\* C6: the monthly range starts at midnight of day 1 of the reference date's
\* own month and ends at 23:59:59.999 of that month's last calendar day.
C6_MonthRange ==
    RangeOf("monthly") =>
        LET y == getFullYear(now)
            m == getMonth(now)
        IN  /\ getFullYear(ret.start) = y /\ getMonth(ret.start) = m
            /\ getDate(ret.start) = 1
            /\ ret.start.ms = 0
            /\ getFullYear(ret.end) = y /\ getMonth(ret.end) = m
            /\ getDate(ret.end) = MonthLength(y, m)
            /\ ret.end.day = ret.start.day + MonthLength(y, m) - 1
            /\ ret.end.ms = MsPerDay - 1
            /\ ret.start.day <= now.day /\ now.day <= ret.end.day

\* a reference on 29 February, and the range ends that day
C6_Witness ==
    /\ RangeOf("monthly")
    /\ getMonth(now) = 1 /\ getDate(now) = 29
    /\ ret.end.day = now.day

\* C7: every range has start <= reference <= end, start at 00:00:00.000 and
\* end at 23:59:59.999 (for daily, both on the reference's date), and the
\* filter over the range keeps an expense dated exactly at start or at end
\* and drops one dated 1 ms before start or 1 ms after end.
C7_RangeInclusive ==
    /\ op = "getDateRangeForPeriod" =>
        /\ TimeLeq(ret.start, now) /\ TimeLeq(now, ret.end)
        /\ ret.start.ms = 0
        /\ ret.end.ms = MsPerDay - 1
        /\ (args[1] = "daily" =>
                ret.start.day = now.day /\ ret.end.day = now.day)
    /\ op = "filterExpensesByDateRange" =>
        LET probe == expenses[1].date
        IN  /\ probe \in {args[2], args[3], now} => ret = expenses
            /\ probe \in {AddMs(args[2], 0 - 1), AddMs(args[3], 1)} => ret = <<>>

\* the expense dated 1 ms after the end of the range was dropped
C7_Witness ==
    /\ op = "filterExpensesByDateRange"
    /\ expenses[1].date = AddMs(args[3], 1)
    /\ ret = <<>>

-----------------------------------------------------------------------------
(* Monthly forecast (calculateMonthlyForecast, in hooks/useThemeColors.ts) *)

\* mutant: an expense dated exactly at the month's last instant is left out
monthExpensesOf_EndExclusive(exps, monthStart, monthEnd) ==
    SelectSeq(exps, LAMBDA e :
        TimeLeq(monthStart, e.date) /\ ~TimeLeq(monthEnd, e.date))

\* expenses.filter(e => e.date >= monthStart && e.date <= monthEnd)
monthExpensesOf(exps, monthStart, monthEnd) ==
    SelectSeq(exps, LAMBDA e :
        TimeLeq(monthStart, e.date) /\ TimeLeq(e.date, monthEnd))

\* mutant: an overspent month gives a negative allowance
safeDailyLimitOf_Unclamped(remainingBudget, daysRemaining) ==
    IF daysRemaining > 0 THEN Frac(remainingBudget, daysRemaining)
    ELSE Frac(remainingBudget, 1)

\* remainingBudget <= 0 ? 0
\*     : (daysRemaining > 0 ? remainingBudget / daysRemaining : remainingBudget)
safeDailyLimitOf(remainingBudget, daysRemaining) ==
    IF remainingBudget <= 0 THEN Frac(0, 1)
    ELSE IF daysRemaining > 0 THEN Frac(remainingBudget, daysRemaining)
    ELSE Frac(remainingBudget, 1)

\* mutant: the limit and its 90% fall in the higher bucket
forecastStatus_AtThreshold(projectedTotal, monthlyLimit) ==
    IF projectedTotal.num >= monthlyLimit * projectedTotal.den THEN "over"
    ELSE IF 10 * projectedTotal.num >= 9 * monthlyLimit * projectedTotal.den
         THEN "warning"
    ELSE "safe"

\* 'over' if projectedTotal > monthlyLimit, else 'warning' if
\* projectedTotal > monthlyLimit * 0.9, else 'safe'
forecastStatus(projectedTotal, monthlyLimit) ==
    IF projectedTotal.num > monthlyLimit * projectedTotal.den THEN "over"
    ELSE IF 10 * projectedTotal.num > 9 * monthlyLimit * projectedTotal.den
         THEN "warning"
    ELSE "safe"

\* mutant: today is not counted as elapsed
calculateMonthlyForecast_TodayNotElapsed(exps, monthlyLimit, referenceDate) ==
    LET monthEnd == endOfMonth(referenceDate)
        totalSpent ==
            SumAmounts(monthExpensesOf(exps, startOfMonth(referenceDate),
                                       monthEnd))
        daysElapsed == getDate(referenceDate) - 1
        daysRemaining == getDate(monthEnd) - daysElapsed
        currentBurnRate ==
            IF daysElapsed > 0 THEN Frac(totalSpent, daysElapsed) ELSE Frac(0, 1)
        projectedTotal ==
            Frac(totalSpent * currentBurnRate.den
                    + currentBurnRate.num * daysRemaining,
                 currentBurnRate.den)
    IN  [totalSpent |-> totalSpent,
         projectedTotal |-> projectedTotal,
         safeDailyLimit |->
             safeDailyLimitOf(monthlyLimit - totalSpent, daysRemaining),
         status |-> forecastStatus(projectedTotal, monthlyLimit),
         currentBurnRate |-> currentBurnRate,
         daysElapsed |-> daysElapsed,
         daysRemaining |-> daysRemaining]

calculateMonthlyForecast(exps, monthlyLimit, referenceDate) ==
    LET monthStart == startOfMonth(referenceDate)
        monthEnd == endOfMonth(referenceDate)
        monthExpenses == monthExpensesOf(exps, monthStart, monthEnd)
        totalSpent == SumAmounts(monthExpenses)
        totalDaysInMonth == getDate(monthEnd)
        currentDayOfMonth == getDate(referenceDate)
        daysElapsed == currentDayOfMonth
        daysRemaining == totalDaysInMonth - daysElapsed
        currentBurnRate ==
            IF daysElapsed > 0 THEN Frac(totalSpent, daysElapsed) ELSE Frac(0, 1)
        projectedTotal ==
            Frac(totalSpent * currentBurnRate.den
                    + currentBurnRate.num * daysRemaining,
                 currentBurnRate.den)
        remainingBudget == monthlyLimit - totalSpent
    IN  [totalSpent |-> totalSpent,
         projectedTotal |-> projectedTotal,
         safeDailyLimit |-> safeDailyLimitOf(remainingBudget, daysRemaining),
         status |-> forecastStatus(projectedTotal, monthlyLimit),
         currentBurnRate |-> currentBurnRate,
         daysElapsed |-> daysElapsed,
         daysRemaining |-> daysRemaining]

\* longest snapshot passed to calculateMonthlyForecast
MaxMonthExpenses == 2

\* reference dates: the first, fifteenth and last day of April 2024 (30
\* days) and 29 February 2024
ForecastClocks ==
    { [day |-> 19814, ms |-> MsPerDay \div 2],
      [day |-> 19828, ms |-> 1],
      [day |-> 19843, ms |-> MsPerDay - 1],
      [day |-> 19782, ms |-> MsPerDay \div 2] }

\* dates at and just outside the bounds of the reference month, and the
\* reference date itself
MonthDates(clock) ==
    { startOfMonth(clock), AddMs(startOfMonth(clock), 0 - 1),
      endOfMonth(clock), AddMs(endOfMonth(clock), 1), clock }

\* monthly limits (stored limits are at least 1): limits the projections of
\* 90, 100 and 190 exceed, reach, and reach 90% of
MonthlyLimits == {100, 180, 200, 3000}

InitForecast ==
    /\ expenses = <<>>
    /\ budget = NoBudget
    /\ now \in ForecastClocks
    /\ op = "none"
    /\ args = <<>>
    /\ ret = <<>>

AddMonthExpense ==
    /\ op \in {"none", "addExpense"}
    /\ Len(expenses) < MaxMonthExpenses
    /\ \E a \in {90, 100}, d \in MonthDates(now) :
        expenses' = Append(expenses, Expense(a, "food", d))
    /\ op' = "addExpense"
    /\ UNCHANGED <<budget, now, args, ret>>

CallCalculateMonthlyForecast ==
    /\ op \in {"none", "addExpense"}
    /\ \E monthlyLimit \in MonthlyLimits :
        /\ args' = <<monthlyLimit, now>>
        /\ ret' = calculateMonthlyForecast(expenses, monthlyLimit, now)
    /\ op' = "calculateMonthlyForecast"
    /\ UNCHANGED <<expenses, budget, now>>

NextForecast == AddMonthExpense \/ CallCalculateMonthlyForecast

SpecForecast == InitForecast /\ [][NextForecast]_vars

ForecastCall == op = "calculateMonthlyForecast"

\* the number of days of the reference date's month
DaysInReferenceMonth == MonthLength(getFullYear(now), getMonth(now))

\* fraction p equals the whole number n
FracIs(p, n) == p.den > 0 /\ p.num = n * p.den

\* C15: totalSpent is the sum of the amounts of the expenses dated within the
\* reference date's calendar month, daysElapsed the reference date's day of
\* month, daysRemaining the month's length minus daysElapsed, currentBurnRate
\* totalSpent / daysElapsed and projectedTotal totalSpent + currentBurnRate *
\* daysRemaining; on day 1 of a 30-day month with totalSpent 100 these are
\* 1, 29, 100 and 3000.
C15_Forecast ==
    ForecastCall =>
        /\ ret.totalSpent = MonthSum(expenses, now)
        /\ ret.daysElapsed = getDate(now)
        /\ ret.daysRemaining = DaysInReferenceMonth - ret.daysElapsed
        /\ ret.currentBurnRate.den > 0
        /\ ret.currentBurnRate.num * ret.daysElapsed
              = ret.totalSpent * ret.currentBurnRate.den
        /\ ret.projectedTotal.den > 0
        /\ ret.projectedTotal.num * ret.currentBurnRate.den
              = ret.projectedTotal.den
                  * (ret.totalSpent * ret.currentBurnRate.den
                        + ret.currentBurnRate.num * ret.daysRemaining)
        /\ (getDate(now) = 1 /\ DaysInReferenceMonth = 30
                /\ ret.totalSpent = 100) =>
              /\ ret.daysElapsed = 1 /\ ret.daysRemaining = 29
              /\ FracIs(ret.currentBurnRate, 100)
              /\ FracIs(ret.projectedTotal, 3000)

\* 1 April: 100 spent at the month's first instant, 90 a millisecond before
C15_Witness ==
    /\ ForecastCall /\ getDate(now) = 1 /\ DaysInReferenceMonth = 30
    /\ Len(expenses) = 2
    /\ expenses[1].date = startOfMonth(now) /\ expenses[1].amount = 100
    /\ expenses[2].date = AddMs(startOfMonth(now), 0 - 1)
    /\ ret.totalSpent = 100 /\ FracIs(ret.projectedTotal, 3000)

\* C16: safeDailyLimit is 0 when monthlyLimit - totalSpent <= 0; otherwise
\* (monthlyLimit - totalSpent) / daysRemaining when daysRemaining > 0, and
\* monthlyLimit - totalSpent itself when daysRemaining = 0; no quotient has a
\* zero divisor, and with daysRemaining > 0 and budget remaining
\* safeDailyLimit * daysRemaining is the remaining budget.
C16_SafeDailyLimit ==
    ForecastCall =>
        LET remainingBudget == args[1] - MonthSum(expenses, now)
            daysRemaining == DaysInReferenceMonth - getDate(now)
            safe == ret.safeDailyLimit
        IN  /\ safe.den > 0
            /\ ret.currentBurnRate.den > 0 /\ ret.projectedTotal.den > 0
            /\ remainingBudget <= 0 => safe.num = 0
            /\ (remainingBudget > 0 /\ daysRemaining > 0) =>
                  safe.num * daysRemaining = remainingBudget * safe.den
            /\ (remainingBudget > 0 /\ daysRemaining = 0) =>
                  FracIs(safe, remainingBudget)

\* the last day of the month with budget left: what is left, undivided
C16_Witness ==
    /\ ForecastCall /\ args[1] = 200
    /\ getDate(now) = DaysInReferenceMonth
    /\ ret.daysRemaining = 0 /\ ret.totalSpent = 90
    /\ FracIs(ret.safeDailyLimit, 110)

\* projectedTotal compared with monthlyLimit and with 90% of it
ProjectedOverLimit ==
    ret.projectedTotal.num > args[1] * ret.projectedTotal.den
ProjectedOverNinety ==
    10 * ret.projectedTotal.num > 9 * args[1] * ret.projectedTotal.den

\* C17: status is 'over' iff projectedTotal > monthlyLimit, 'warning' iff
\* monthlyLimit * 0.9 < projectedTotal <= monthlyLimit, 'safe' iff
\* projectedTotal <= monthlyLimit * 0.9; a projection exactly at the limit is
\* 'warning' and one exactly at 90% of it is 'safe'.
C17_ForecastStatus ==
    ForecastCall =>
        /\ ret.status \in {"over", "warning", "safe"}
        /\ ret.status = "over" <=> ProjectedOverLimit
        /\ ret.status = "warning"
              <=> (ProjectedOverNinety /\ ~ProjectedOverLimit)
        /\ ret.status = "safe" <=> ~ProjectedOverNinety
        /\ FracIs(ret.projectedTotal, args[1]) => ret.status = "warning"
        /\ (ret.projectedTotal.den > 0
              /\ 10 * ret.projectedTotal.num
                    = 9 * args[1] * ret.projectedTotal.den) =>
              ret.status = "safe"

\* 15 April, 90 spent: the projection of 180 is exactly 90% of 200
C17_Witness ==
    /\ ForecastCall /\ args[1] = 200 /\ getDate(now) = 15
    /\ ret.totalSpent = 90 /\ FracIs(ret.projectedTotal, 180)
    /\ ret.status = "safe"

-----------------------------------------------------------------------------
(* comparisonCalculations.ts; its toDateKey and dailyTotals are the same    *)
(* code as those of streakCalculations.ts                                  *)

\* date.toLocaleDateString('en-US', { weekday: 'short' })
weekdayShort(date) ==
    CASE getDay(date) = 0 -> "Sun"
      [] getDay(date) = 1 -> "Mon"
      [] getDay(date) = 2 -> "Tue"
      [] getDay(date) = 3 -> "Wed"
      [] getDay(date) = 4 -> "Thu"
      [] getDay(date) = 5 -> "Fri"
      [] getDay(date) = 6 -> "Sat"

\* mutant: each entry carries the total of the day before its date
dailySpendingAt_DayBefore(exps, today, i) ==
    LET date == setDate(today, getDate(today) - i)
        key == toDateKey(setDate(today, getDate(today) - i - 1))
    IN  [date |-> date,
         dayLabel |-> IF i = 0 THEN "Today" ELSE weekdayShort(date),
         amount |-> dailyTotalsGet(exps, key),
         isToday |-> (i = 0)]

\* the entry the loop pushes for offset i
dailySpendingAt(exps, today, i) ==
    LET date == setDate(today, getDate(today) - i)
        key == toDateKey(date)
    IN  [date |-> date,
         dayLabel |-> IF i = 0 THEN "Today" ELSE weekdayShort(date),
         amount |-> dailyTotalsGet(exps, key),
         isToday |-> (i = 0)]

\* mutant: the loop counts up, today first
getLast7DaysSpending_NewestFirst(exps, today) ==
    [j \in 1..7 |-> dailySpendingAt(exps, today, j - 1)]

\* for (let i = 6; i >= 0; i--) days.push(...); today is new Date()
getLast7DaysSpending(exps, today) ==
    [j \in 1..7 |-> dailySpendingAt(exps, today, 7 - j)]

\* longest snapshot passed to getLast7DaysSpending
MaxWeekExpenses == 2

\* an expense is dated this many days before today: tomorrow, today,
\* yesterday, the oldest day of the chart and the day before it
WeekOffsets == {0 - 1, 0, 1, 6, 7}

InitLast7 ==
    /\ expenses = <<>>
    /\ budget = NoBudget
    /\ now \in StreakClocks
    /\ op = "none"
    /\ args = <<>>
    /\ ret = <<>>

AddWeekExpense ==
    /\ op \in {"none", "addExpense"}
    /\ Len(expenses) < MaxWeekExpenses
    /\ \E a \in {30, 60}, k \in WeekOffsets :
        expenses' =
            Append(expenses,
                   Expense(a, "food",
                           [day |-> now.day - k,
                            ms |-> TimeAt(Len(expenses) + 1)]))
    /\ op' = "addExpense"
    /\ UNCHANGED <<budget, now, args, ret>>

CallGetLast7DaysSpending ==
    /\ op \in {"none", "addExpense"}
    /\ args' = <<>>
    /\ ret' = getLast7DaysSpending(expenses, now)
    /\ op' = "getLast7DaysSpending"
    /\ UNCHANGED <<expenses, budget, now>>

NextLast7 == AddWeekExpense \/ CallGetLast7DaysSpending

SpecLast7 == InitLast7 /\ [][NextLast7]_vars

\* C18: getLast7DaysSpending returns exactly 7 entries, oldest first, dated
\* on the 7 consecutive calendar days ending today; only the last entry has
\* isToday true and dayLabel 'Today'; each entry's amount is the sum of the
\* amounts of the expenses dated on its calendar day, 0 when there are none.
C18_Last7Days ==
    op = "getLast7DaysSpending" =>
        /\ Len(ret) = 7
        /\ \A j \in 1..7 :
            /\ ret[j].date.day = now.day - (7 - j)
            /\ ret[j].isToday <=> j = 7
            /\ ret[j].dayLabel = "Today" <=> j = 7
            /\ ret[j].amount = DayAmount(expenses, ret[j].date.day)

\* 30 spent on the oldest day of the chart and 60 the day before it, nothing
\* since
C18_Witness ==
    /\ op = "getLast7DaysSpending"
    /\ DayAmount(expenses, now.day - 7) = 60
    /\ ret[1].amount = 30 /\ ret[7].amount = 0
    /\ ret[7].isToday /\ ~ret[1].isToday
    /\ ret[6].dayLabel \in {"Mon", "Fri"}

-----------------------------------------------------------------------------
(* The analytics functions over objects.  A heap is the sequence of the    *)
(* objects allocated so far and a reference is an index into it: a Date    *)
(* object holds its instant, an array holds its elements, an expense holds *)
(* a reference to its Date.  new Date(x) and filter/map allocate; the Date *)
(* setters and Array.sort write to the object they are called on.          *)

\* the expense list an array of expense objects stands for
Snapshot(h, exps) ==
    [i \in 1..Len(h[exps]) |->
        Expense(h[exps][i].amount, h[exps][i].category, h[h[exps][i].date])]

\* const d = new Date(date), the setters called on d, return d: the new
\* object ends with the instant the setters leave
startOfDayOn(h, date) ==
    [heap |-> Append(h, startOfDay(h[date])), ref |-> Len(h) + 1]

endOfDayOn(h, date) ==
    [heap |-> Append(h, endOfDay(h[date])), ref |-> Len(h) + 1]

\* mutant: const d = date, so the setters write to the caller's Date
startOfWeekOn_InPlace(h, date) ==
    [heap |-> [h EXCEPT ![date] = startOfWeek(h[date])], ref |-> date]

startOfWeekOn(h, date) ==
    [heap |-> Append(h, startOfWeek(h[date])), ref |-> Len(h) + 1]

\* start is the Date startOfWeek(date) returned, d a copy of it
endOfWeekOn(h, date) ==
    LET start == startOfWeekOn(h, date)
    IN  [heap |-> Append(start.heap,
                         setHours(setDate(start.heap[start.ref],
                                          getDate(start.heap[start.ref]) + 6),
                                  23, 59, 59, 999)),
         ref |-> Len(start.heap) + 1]

startOfMonthOn(h, date) ==
    [heap |-> Append(h, startOfMonth(h[date])), ref |-> Len(h) + 1]

endOfMonthOn(h, date) ==
    [heap |-> Append(h, endOfMonth(h[date])), ref |-> Len(h) + 1]

\* reduce only reads the array
getBudgetStatusOn(h, limit, exps) ==
    [heap |-> h, value |-> getBudgetStatus(limit, Snapshot(h, exps))]

\* the expense objects of the array exps dated from start to end
expensesWithin(h, exps, start, end) ==
    LET InRange(expense) ==
            /\ TimeLeq(start, h[expense.date])
            /\ TimeLeq(h[expense.date], end)
    IN  SelectSeq(h[exps], InRange)

\* filter returns a new array of the same expense objects
filterExpensesByDateRangeOn(h, exps, start, end) ==
    [heap |-> Append(h, expensesWithin(h, exps, h[start], h[end])),
     ref |-> Len(h) + 1]

\* the expenses between the Dates two helper calls returned, end's heap being
\* the later one
filterBetween(start, end, exps) ==
    filterExpensesByDateRangeOn(end.heap, exps, start.ref, end.ref)

\* now is a new Date and the helpers are called on it alone: the call
\* allocates now, the seven Dates the helpers make from it (endOfWeek makes
\* two) and the three filtered arrays, and reads the budget and the expenses
getAllBudgetStatusesOn(h, b, exps, clock) ==
    [heap |->
        h \o << clock,
                startOfDay(clock), endOfDay(clock),
                expensesWithin(h, exps, startOfDay(clock), endOfDay(clock)),
                startOfWeek(clock), startOfWeek(clock), endOfWeek(clock),
                expensesWithin(h, exps, startOfWeek(clock), endOfWeek(clock)),
                startOfMonth(clock), endOfMonth(clock),
                expensesWithin(h, exps, startOfMonth(clock), endOfMonth(clock)) >>,
     value |-> getAllBudgetStatuses(h[b], Snapshot(h, exps), clock)]

getDateRangeForPeriodOn(h, period, ref) ==
    LET start == CASE period = "daily" -> startOfDayOn(h, ref)
                   [] period = "weekly" -> startOfWeekOn(h, ref)
                   [] period = "monthly" -> startOfMonthOn(h, ref)
        end == CASE period = "daily" -> endOfDayOn(start.heap, ref)
                 [] period = "weekly" -> endOfWeekOn(start.heap, ref)
                 [] period = "monthly" -> endOfMonthOn(start.heap, ref)
    IN  [heap |-> end.heap,
         value |-> [start |-> end.heap[start.ref], end |-> end.heap[end.ref]]]

\* the items of Array.from(categoryMap.entries()).map(...), before the sort
categoryItems(filtered) ==
    LET categoryMap == aggregateByCategory(filtered)
        total == SumAmounts(filtered)
    IN  [i \in 1..Len(categoryMap) |->
            [category |-> categoryMap[i].category,
             amount |-> categoryMap[i].amount,
             percent |-> IF total > 0
                         THEN Frac(categoryMap[i].amount * 100, total)
                         ELSE Frac(0, 1)]]

\* the summary, read off the heap with the sorted array at categories
summaryOn(h, categories, total) ==
    [heap |-> h, value |-> [total |-> total, categories |-> h[categories]]]

\* sort reorders the array map returned, in place
sortedSummaryOn(h, filtered) ==
    IF Len(filtered) = 0
    THEN [heap |-> h, value |-> [total |-> 0, categories |-> <<>>]]
    ELSE summaryOn(Append(h, sortByAmountDesc(categoryItems(filtered))),
                   Len(h) + 1, SumAmounts(filtered))

getCategorySummaryOn(h, exps, startDate, endDate) ==
    LET start == startOfDayOn(h, startDate)
        filtered == filterBetween(start, endOfDayOn(start.heap, endDate), exps)
    IN  sortedSummaryOn(filtered.heap, Snapshot(filtered.heap, filtered.ref))

\* today and one checkDate for each turn of the loop are new Dates; toDateKey
\* reads the Date it is given
calculateBudgetStreakOn(h, exps, dailyLimit, budgetStartDate, maxLookbackDays, clock) ==
    IF dailyLimit <= 0
    THEN [heap |-> h, value |-> [streakDays |-> 0, isActiveToday |-> FALSE]]
    ELSE LET value == calculateBudgetStreak(Snapshot(h, exps), dailyLimit,
                                            h[budgetStartDate],
                                            maxLookbackDays, clock)
             turns == IF value.streakDays < maxLookbackDays
                      THEN value.streakDays + 1 ELSE value.streakDays
         IN  [heap |-> Append(h, clock)
                         \o [i \in 1..turns |->
                                setDate(clock, getDate(clock) - (i - 1))],
              value |-> value]

\* the forecast, read off the heap the helpers and the filter left
forecastOn(h, exps, monthlyLimit, referenceDate) ==
    [heap |-> h,
     value |-> calculateMonthlyForecast(Snapshot(h, exps), monthlyLimit,
                                        h[referenceDate])]

\* the month's bounds are new Dates made by the helpers, filter returns a new
\* array
calculateMonthlyForecastOn(h, exps, monthlyLimit, referenceDate) ==
    LET monthStart == startOfMonthOn(h, referenceDate)
        monthExpenses ==
            filterBetween(monthStart,
                          endOfMonthOn(monthStart.heap, referenceDate), exps)
    IN  forecastOn(monthExpenses.heap, exps, monthlyLimit, referenceDate)

\* today and the seven dates of the entries are new Dates
getLast7DaysSpendingOn(h, exps, clock) ==
    LET value == getLast7DaysSpending(Snapshot(h, exps), clock)
    IN  [heap |-> Append(h, clock) \o [j \in 1..7 |-> value[j].date],
         value |-> value]

-----------------------------------------------------------------------------
(* Frame: each analytics function is called twice in a row on the objects  *)
(* of a snapshot, the second call on the heap the first one left.          *)

\* longest snapshot the functions are called on
MaxFrameExpenses == 2

AnalyticsFunctions ==
    { "startOfDay", "endOfDay", "startOfWeek", "endOfWeek", "startOfMonth",
      "endOfMonth", "getBudgetStatus", "filterExpensesByDateRange",
      "getAllBudgetStatuses", "getDateRangeForPeriod", "getCategorySummary",
      "calculateBudgetStreak", "calculateMonthlyForecast",
      "getLast7DaysSpending" }

FrameBudget ==
    [dailyLimit |-> 50, weeklyLimit |-> Some(300), monthlyLimit |-> Some(1000)]

\* Date arguments: the clock's instant, and 1 ms into the day two days before
FrameDates(clock) == { clock, [day |-> clock.day - 2, ms |-> 1] }

\* the second Date argument and the period, of the functions that take one
SecondDates(fn, date1, clock) ==
    IF fn \in {"filterExpensesByDateRange", "getCategorySummary"}
    THEN FrameDates(clock) ELSE {date1}
PeriodsOf(fn) == IF fn = "getDateRangeForPeriod" THEN Periods ELSE {"daily"}

\* the objects a call is given: the Dates of the expenses, the array of the
\* expenses, the budget and two Date arguments
ObjectsOf(exps, b, date1, date2) ==
    [i \in 1..Len(exps) |-> exps[i].date]
        \o << [i \in 1..Len(exps) |->
                  [amount |-> exps[i].amount, category |-> exps[i].category,
                   date |-> i]],
              b, date1, date2 >>

\* one call of fn on the objects of a snapshot of n expenses laid out by
\* ObjectsOf, with the result's objects read from the heap it leaves
Call(fn, h, n, period, clock) ==
    LET exps == n + 1
        b == n + 2
        date1 == n + 3
        date2 == n + 4
        Read(r) == [heap |-> r.heap, value |-> r.heap[r.ref]]
        List(r) == [heap |-> r.heap, value |-> Snapshot(r.heap, r.ref)]
    IN  CASE fn = "startOfDay" -> Read(startOfDayOn(h, date1))
          [] fn = "endOfDay" -> Read(endOfDayOn(h, date1))
          [] fn = "startOfWeek" -> Read(startOfWeekOn(h, date1))
          [] fn = "endOfWeek" -> Read(endOfWeekOn(h, date1))
          [] fn = "startOfMonth" -> Read(startOfMonthOn(h, date1))
          [] fn = "endOfMonth" -> Read(endOfMonthOn(h, date1))
          [] fn = "getBudgetStatus" ->
                getBudgetStatusOn(h, h[b].dailyLimit, exps)
          [] fn = "filterExpensesByDateRange" ->
                List(filterExpensesByDateRangeOn(h, exps, date1, date2))
          [] fn = "getAllBudgetStatuses" ->
                getAllBudgetStatusesOn(h, b, exps, clock)
          [] fn = "getDateRangeForPeriod" ->
                getDateRangeForPeriodOn(h, period, date1)
          [] fn = "getCategorySummary" ->
                getCategorySummaryOn(h, exps, date1, date2)
          [] fn = "calculateBudgetStreak" ->
                calculateBudgetStreakOn(h, exps, h[b].dailyLimit, date1, 365,
                                        clock)
          [] fn = "calculateMonthlyForecast" ->
                calculateMonthlyForecastOn(h, exps, h[b].monthlyLimit[1], date1)
          [] fn = "getLast7DaysSpending" ->
                getLast7DaysSpendingOn(h, exps, clock)

InitFrame ==
    /\ expenses = <<>>
    /\ budget = FrameBudget
    /\ now \in StreakClocks
    /\ op = "none"
    /\ args = <<>>
    /\ ret = <<>>

AddFrameExpense ==
    /\ op \in {"none", "addExpense"}
    /\ Len(expenses) < MaxFrameExpenses
    /\ \E a \in {10, 20}, d \in {now, AddMs(startOfDay(now), 0 - 1)} :
        expenses' =
            Append(expenses, Expense(a, CategoryAt(Len(expenses) + 1), d))
    /\ op' = "addExpense"
    /\ UNCHANGED <<budget, now, args, ret>>

CallTwice ==
    /\ op \in {"none", "addExpense"}
    /\ \E fn \in AnalyticsFunctions, date1 \in FrameDates(now) :
       \E date2 \in SecondDates(fn, date1, now), period \in PeriodsOf(fn) :
        LET h == ObjectsOf(expenses, budget, date1, date2)
            first == Call(fn, h, Len(expenses), period, now)
            second == Call(fn, first.heap, Len(expenses), period, now)
        IN  /\ args' = <<fn, h>>
            /\ ret' = [first |-> first.value, second |-> second.value,
                       heap |-> second.heap]
    /\ op' = "callTwice"
    /\ UNCHANGED <<expenses, budget, now>>

NextFrame == AddFrameExpense \/ CallTwice

SpecFrame == InitFrame /\ [][NextFrame]_vars

\* C19: no analytics function changes its inputs: after the calls the expense
\* array holds the same expenses in the same order, every expense's Date, the
\* budget and the Date arguments are what they were; and the second of two
\* calls on the same snapshot at the same clock returns what the first did.
C19_InputsUnchanged ==
    op = "callTwice" =>
        /\ Len(ret.heap) >= Len(args[2])
        /\ \A r \in 1..Len(args[2]) : ret.heap[r] = args[2][r]
        /\ Snapshot(ret.heap, Len(expenses) + 1) = expenses
        /\ ret.first = ret.second

\* the summary lists transport (20) before food (10) while the expense array
\* still lists the food expense first
C19_Witness ==
    /\ op = "callTwice" /\ args[1] = "getCategorySummary"
    /\ Len(expenses) = 2
    /\ expenses[1].amount = 10 /\ expenses[1].category = "food"
    /\ expenses[2].amount = 20 /\ expenses[2].category = "transport"
    /\ Len(ret.first.categories) = 2
    /\ ret.first.categories[1].category = "transport"
    /\ ret.heap[3][1].category = "food"
    /\ Len(ret.heap) > Len(args[2])

-----------------------------------------------------------------------------
(* expenseService.ts: the expense store.  The store is the sequence of the *)
(* documents ever added, a document's id being its position and a deleted *)
(* document leaving Null.  A number that may be NaN is Null for NaN and    *)
(* Some(n) otherwise; a Date is Null for an Invalid Date and Some(instant) *)
(* otherwise; an absent field of a partial update is Null and a present    *)
(* one Some(value).  A document keeps amount, category and date.           *)

MAX_NOTE_LENGTH == 200

VALID_CATEGORY_KEYS ==
    { "food", "transport", "shopping", "entertainment", "bills", "health",
      "education", "other" }

\* s.trim().length === 0, for the budget ids tried
isBlank(s) == s \in {"", " "}

\* the message of the error thrown, or Null when the input passes
validateExpenseInput(data) ==
    IF data.amount = Null THEN Some("Amount must be a valid number.")
    ELSE IF data.amount[1] <= 0 THEN Some("Amount must be greater than zero.")
    ELSE IF data.amount[1] > 1000000
         THEN Some("Amount seems too large. Please verify.")
    ELSE IF data.category \notin VALID_CATEGORY_KEYS
         THEN Some("Please select a valid category.")
    ELSE IF data.noteLength > MAX_NOTE_LENGTH
         THEN Some("Note must be 200 characters or fewer.")
    ELSE IF isBlank(data.budgetId)
         THEN Some("Please set up a budget before adding expenses.")
    ELSE IF data.date = Null THEN Some("Please provide a valid date.")
    ELSE Null

\* most documents ever added to the store
MaxStored == 2

\* amounts tried: NaN, negative, zero, valid, too large
AmountInputs == {Null, Some(0 - 5), Some(0), Some(1), Some(1000001)}

CreateExpenseInputs ==
    [amount : AmountInputs,
     category : {"food", "junk"},
     noteLength : {MAX_NOTE_LENGTH, MAX_NOTE_LENGTH + 1},
     budgetId : {" ", "b1"},
     date : {Null, Some(Noon)}]

\* partial updates of the amount and the category
UpdateExpenseInputs ==
    [amount : {Null} \cup {Some(a) : a \in AmountInputs},
     category : {Null, Some("transport"), Some("junk")}]

InitStore ==
    /\ expenses = <<>>
    /\ budget = NoBudget
    /\ now = Noon
    /\ op = "none"
    /\ args = <<>>
    /\ ret = <<>>

\* validateExpenseInput throws before addDoc is reached
addExpense(data) ==
    /\ LET error == validateExpenseInput(data)
       IN  IF error # Null
           THEN /\ expenses' = expenses
                /\ ret' = [error |-> error[1]]
           ELSE /\ Len(expenses) < MaxStored
                /\ expenses' =
                       Append(expenses,
                              Some([amount |-> data.amount,
                                    category |-> data.category,
                                    date |-> data.date]))
                /\ ret' = [id |-> Len(expenses) + 1]
    /\ op' = "addExpense"
    /\ args' = <<data>>
    /\ UNCHANGED <<budget, now>>

deleteExpense(expenseId) ==
    /\ expenseId \in 1..Len(expenses)
    /\ expenses[expenseId] # Null
    /\ expenses' = [expenses EXCEPT ![expenseId] = Null]
    /\ op' = "deleteExpense"
    /\ args' = <<expenseId>>
    /\ ret' = <<>>
    /\ UNCHANGED <<budget, now>>

\* updateDoc writes the fields of data that are not undefined over the
\* document's; nothing is validated
updateExpense(expenseId, data) ==
    /\ expenseId \in 1..Len(expenses)
    /\ expenses[expenseId] # Null
    /\ LET stored == expenses[expenseId][1]
           updated ==
               [amount |-> IF data.amount # Null THEN data.amount[1]
                           ELSE stored.amount,
                category |-> IF data.category # Null THEN data.category[1]
                             ELSE stored.category,
                date |-> stored.date]
       IN  expenses' = [expenses EXCEPT ![expenseId] = Some(updated)]
    /\ op' = "updateExpense"
    /\ args' = <<expenseId, data>>
    /\ ret' = <<>>
    /\ UNCHANGED <<budget, now>>

NextStore ==
    \/ \E data \in CreateExpenseInputs : addExpense(data)
    \/ \E expenseId \in 1..MaxStored : deleteExpense(expenseId)
    \/ \E expenseId \in 1..MaxStored, data \in UpdateExpenseInputs :
          updateExpense(expenseId, data)

SpecStore == InitStore /\ [][NextStore]_vars

\* C20: after any sequence of addExpense, updateExpense and deleteExpense
\* calls, every stored expense has amount > 0, a category of the fixed
\* category set and a valid date (a call that would break this being
\* rejected with the store unchanged).
C20_StoredExpensesValid ==
    \A id \in 1..Len(expenses) :
        expenses[id] # Null =>
            /\ expenses[id][1].amount # Null
            /\ expenses[id][1].amount[1] > 0
            /\ expenses[id][1].category \in VALID_CATEGORY_KEYS
            /\ expenses[id][1].date # Null

-----------------------------------------------------------------------------
(* budgetService.ts: createBudget.  The budgets collection is the sequence *)
(* of the documents ever added (budget), a document's id being its         *)
(* position.  A call awaits getDocs and later batch.commit, so calls       *)
(* interleave between the two; args holds, for each call, where it is and  *)
(* the active documents its query returned.                                *)

\* createBudget calls that may be in flight together
MaxCalls == 3

\* most documents ever added to the budgets collection
MaxBudgets == 4

InitBudgets ==
    /\ expenses = <<>>
    /\ budget = <<>>
    /\ now = Noon
    /\ op = "none"
    /\ args = [c \in 1..MaxCalls |-> [pc |-> "idle", activeSnapshots |-> {}]]
    /\ ret = <<>>

\* validateBudgetInput has passed; await getDocs(activeQuery) returns the
\* documents with isActive == true
createBudgetGetDocs(c) ==
    /\ args[c].pc \in {"idle", "done"}
    /\ Len(budget) + Cardinality({d \in 1..MaxCalls : args[d].pc = "getDocs"})
          < MaxBudgets
    /\ args' = [args EXCEPT ![c] =
                   [pc |-> "getDocs",
                    activeSnapshots |->
                        {id \in 1..Len(budget) : budget[id].isActive}]]
    /\ op' = "getDocs"
    /\ UNCHANGED <<expenses, budget, now, ret>>

\* await batch.commit(): the documents read are set inactive and the new
\* active document is added, atomically
createBudgetCommit(c) ==
    /\ args[c].pc = "getDocs"
    /\ budget' =
           Append([id \in 1..Len(budget) |->
                      IF id \in args[c].activeSnapshots
                      THEN [isActive |-> FALSE] ELSE budget[id]],
                  [isActive |-> TRUE])
    /\ args' = [args EXCEPT ![c] = [pc |-> "done", activeSnapshots |-> {}]]
    /\ op' = "commit"
    /\ ret' = <<Len(budget) + 1>>
    /\ UNCHANGED <<expenses, now>>

NextBudgets ==
    \E c \in 1..MaxCalls : createBudgetGetDocs(c) \/ createBudgetCommit(c)

SpecBudgets == InitBudgets /\ [][NextBudgets]_vars

\* C21: at every moment at most one budget has isActive = true, for every
\* interleaving of createBudget calls; and when a call has just completed,
\* the budget it created is active and every other budget is inactive.
C21_OneActiveBudget ==
    /\ Cardinality({id \in 1..Len(budget) : budget[id].isActive}) <= 1
    /\ op = "commit" =>
          \A id \in 1..Len(budget) : budget[id].isActive <=> id = ret[1]

-----------------------------------------------------------------------------
(* BudgetContext.tsx: BudgetProvider, with the home screen's streak.  In   *)
(* this specification budget is state.budget (Null or Some(budget)),       *)
(* expenses is state.expenses, ret is what the last render exposed, and    *)
(* args holds what lies outside the provider: the user's stored expenses   *)
(* and the date range of the expense subscription (Null when signed out).  *)

\* most expenses in the user's store
MaxStoredExpenses == 2

\* Tue 30 April and Wed 1 May 2024, days of one Monday-Sunday week
ProviderDays == {19843, 19844}

ProviderBudgets ==
    { [dailyLimit |-> 50, weeklyLimit |-> Some(300), monthlyLimit |-> Null,
       startDate |-> [day |-> 19842, ms |-> MsPerDay \div 2]] }

\* mutant: nothing is computed until there are expenses
statusesAndStreak_NullWhenNoExpenses(b, exps, clock) ==
    IF b = Null \/ exps = <<>>
    THEN [statuses |-> Null, streak |-> Null]
    ELSE [statuses |-> Some(getAllBudgetStatuses(b[1], exps, clock)),
          streak |-> Some(calculateBudgetStreak(exps, b[1].dailyLimit,
                                                b[1].startDate, 365, clock))]

\* the two useMemo values as computed by a render at clock: statuses
\* (BudgetProvider) and streak (home screen)
statusesAndStreak(b, exps, clock) ==
    IF b = Null
    THEN [statuses |-> Null, streak |-> Null]
    ELSE [statuses |-> Some(getAllBudgetStatuses(b[1], exps, clock)),
          streak |-> Some(calculateBudgetStreak(exps, b[1].dailyLimit,
                                                b[1].startDate, 365, clock))]

\* the documents of the store dated within the subscription's range, ordered
\* by date descending (stored dates are distinct)
onExpensesSnapshotDocs(store, range) ==
    LET docs == filterExpensesByDateRange(store, range.start, range.end)
        n == Len(docs)
        rank(i) == Cardinality({j \in 1..n :
                        ~TimeLeq(docs[j].date, docs[i].date)}) + 1
    IN  [k \in 1..n |-> docs[CHOOSE i \in 1..n : rank(i) = k]]

InitProvider ==
    /\ expenses = <<>>
    /\ budget = Null
    /\ now = [day |-> 19843, ms |-> MsPerDay \div 2]
    /\ op = "none"
    /\ args = [store |-> <<>>, subscription |-> Null]
    /\ ret = statusesAndStreak(Null, <<>>, now)

\* the effects run for a signed-in user (sign-in or refresh): the expense
\* listener is subscribed for the current month
Subscribe ==
    /\ args' = [args EXCEPT !.subscription =
                   Some([start |-> startOfMonth(now), end |-> endOfMonth(now)])]
    /\ op' = "subscribe"
    /\ UNCHANGED <<expenses, budget, now, ret>>

\* the user signs out: RESET
Reset ==
    /\ args.subscription # Null
    /\ args' = [args EXCEPT !.subscription = Null]
    /\ expenses' = <<>>
    /\ budget' = Null
    /\ ret' = statusesAndStreak(Null, <<>>, now)
    /\ op' = "reset"
    /\ UNCHANGED now

\* the budget listener calls back with the active budget, or with null when
\* there is none or on an error: SET_BUDGET, and the render recomputes
BudgetSnapshot ==
    /\ args.subscription # Null
    /\ \E b \in {Null} \cup {Some(x) : x \in ProviderBudgets} :
        /\ budget' = b
        /\ ret' = statusesAndStreak(b, expenses, now)
    /\ op' = "budgetSnapshot"
    /\ UNCHANGED <<expenses, now, args>>

\* the expense listener calls back with the documents of its query, or with
\* [] on an error: SET_EXPENSES, and the render recomputes
ExpensesSnapshot ==
    /\ args.subscription # Null
    /\ \E docs \in {<<>>, onExpensesSnapshotDocs(args.store,
                                                args.subscription[1])} :
        /\ expenses' = docs
        /\ ret' = statusesAndStreak(budget, docs, now)
    /\ op' = "expensesSnapshot"
    /\ UNCHANGED <<budget, now, args>>

\* an expense is added to the store
StoreExpense ==
    /\ Len(args.store) < MaxStoredExpenses
    /\ \E day \in ProviderDays :
        args' = [args EXCEPT !.store =
                    Append(@, Expense(AmountAt(Len(@) + 1), "food",
                                      [day |-> day, ms |-> Len(@) + 1]))]
    /\ op' = "storeExpense"
    /\ UNCHANGED <<expenses, budget, now, ret>>

\* local midnight passes: nothing is dispatched, the memoised values stay
ClockAdvance ==
    /\ now.day + 1 \in ProviderDays
    /\ now' = [day |-> now.day + 1, ms |-> now.ms]
    /\ op' = "clockAdvance"
    /\ UNCHANGED <<expenses, budget, args, ret>>

NextProvider ==
    \/ Subscribe \/ Reset \/ BudgetSnapshot \/ ExpensesSnapshot
    \/ StoreExpense \/ ClockAdvance

SpecProvider == InitProvider /\ [][NextProvider]_vars

C23_StatusesCurrent ==
    ret.statuses = statusesAndStreak(budget, expenses, now).statuses

\* C24: when the expense listener has just delivered its snapshot and the
\* budget has a weekly limit, the exposed weekly totalSpent is the sum of the
\* amounts of all stored expenses dated within the current Monday-Sunday week.
C24_WeeklyTotalOfStore ==
    (/\ op = "expensesSnapshot"
     /\ expenses # <<>>
     /\ budget # Null
     /\ budget[1].weeklyLimit # Null)
    => ret.statuses[1].weekly[1].totalSpent = WeekSum(args.store, now)

-----------------------------------------------------------------------------
(* Calendar periods as a partition of time, under SpecRange.               *)

\* C25: for each unit (day, week, month) every instant x of the period of the
\* reference date has the same period (start(x) = start(ref) and end(x) =
\* end(ref), so the start functions are idempotent), the instant 1 ms after
\* end(ref) starts the next period and the instant 1 ms before start(ref) ends
\* the previous one.
C25_PeriodsPartitionTime ==
    op = "getDateRangeForPeriod" =>
        /\ \A day \in ret.start.day..ret.end.day :
              \A ms \in {0, now.ms, MsPerDay - 1} :
                 getDateRangeForPeriod(args[1], [day |-> day, ms |-> ms]) = ret
        /\ getDateRangeForPeriod(args[1], ret.start).start = ret.start
        /\ getDateRangeForPeriod(args[1], AddMs(ret.end, 1)).start
              = AddMs(ret.end, 1)
        /\ getDateRangeForPeriod(args[1], AddMs(ret.start, 0 - 1)).end
              = AddMs(ret.start, 0 - 1)

\* a month of 29 days asked for at noon of a day inside it
C25_Witness ==
    /\ RangeOf("monthly")
    /\ ret.end.day - ret.start.day = 28
    /\ now.day = ret.start.day + 14
    /\ now.ms = MsPerDay \div 2

-----------------------------------------------------------------------------
(* getBudgetStatus along a growing expense list, under Spec.               *)

Severity(status) ==
    CASE status = "safe" -> 0 [] status = "warning" -> 1 [] status = "over" -> 2

\* getBudgetStatus is called again with the limit of the previous call after
\* expenses have been added since that call
CalledAgainAfterAdditions ==
    /\ args # <<>>
    /\ op = "addExpense"
    /\ op' = "getBudgetStatus"
    /\ args' = args

\* C26: for a fixed limit L > 0, from one call of getBudgetStatus to the next
\* with expenses of amount > 0 added in between, totalSpent strictly
\* increases, remaining strictly decreases, totalSpent + remaining = L at both
\* calls, and the status does not move to a lower severity
\* (safe < warning < over).
C26_MonotoneInAdditions ==
    [][(CalledAgainAfterAdditions /\ args[1] > 0) =>
           /\ ret'.totalSpent > ret.totalSpent
           /\ ret'.remaining < ret.remaining
           /\ ret.totalSpent + ret.remaining = args[1]
           /\ ret'.totalSpent + ret'.remaining = args[1]
           /\ Severity(ret'.status) >= Severity(ret.status)]_vars

\* a status already 'over' at limit 50 that was recomputed after one more
\* expense and stayed 'over', with remaining below zero
C26_Witness ==
    /\ op = "getBudgetStatus"
    /\ args = <<50>>
    /\ Len(expenses) = 3
    /\ expenses[1].amount = 50
    /\ ret.status = "over"
    /\ ret.remaining < 0

-----------------------------------------------------------------------------
(* The home screen's figures for one snapshot and one clock: the streak    *)
(* today and as it was yesterday, the budget statuses and the last seven   *)
(* days.                                                                    *)

\* lookbacks: negative, none, two days, and the default
DayLookbacks == {0 - 1, 0, 2, 365}

\* an expense of 30 (every third one: 60) dated today, yesterday or the day
\* before joins the snapshot
AddHomeExpense ==
    /\ op \in {"none", "addExpense"}
    /\ Len(expenses) < MaxStreakExpenses
    /\ \E k \in {0, 1, 2} :
        expenses' =
            Append(expenses,
                   Expense(IF (Len(expenses) + 1) % 3 = 0 THEN 60 ELSE 30,
                           "food",
                           [day |-> now.day - k,
                            ms |-> TimeAt(Len(expenses) + 1)]))
    /\ op' = "addExpense"
    /\ UNCHANGED <<budget, now, args, ret>>

CallHomeFigures ==
    /\ op \in {"none", "addExpense"}
    /\ \E dailyLimit \in DailyLimits, k \in StartOffsets,
          maxLookbackDays \in DayLookbacks :
        LET budgetStartDate == [day |-> now.day - k, ms |-> MsPerDay - 1]
            yesterday == [day |-> now.day - 1, ms |-> now.ms]
        IN  /\ args' = <<dailyLimit, budgetStartDate, maxLookbackDays>>
            /\ ret' =
                 [previous |->
                      calculateBudgetStreak(expenses, dailyLimit,
                                            budgetStartDate, maxLookbackDays,
                                            yesterday),
                  streak |->
                      calculateBudgetStreak(expenses, dailyLimit,
                                            budgetStartDate, maxLookbackDays,
                                            now),
                  statuses |->
                      getAllBudgetStatuses(
                          [dailyLimit |-> dailyLimit, weeklyLimit |-> Null,
                           monthlyLimit |-> Null], expenses, now),
                  last7Days |-> getLast7DaysSpending(expenses, now)]
    /\ op' = "homeFigures"
    /\ UNCHANGED <<expenses, budget, now>>

NextHome == AddHomeExpense \/ CallHomeFigures

SpecHome == InitStreak /\ [][NextHome]_vars

HomeCall == op = "homeFigures"

Max(a, b) == IF a > b THEN a ELSE b

\* C27: calculateBudgetStreak returns 0 <= streakDays <= max(0,
\* maxLookbackDays); streakDays is at most the number of calendar days from
\* the budget's start day to today inclusive; streakDays >= 1 implies
\* isActiveToday; streakDays = 0 with isActiveToday happens only when today is
\* before the start day or maxLookbackDays < 1.
C27_StreakBounds ==
    HomeCall =>
        /\ ret.streak.streakDays >= 0
        /\ ret.streak.streakDays <= Max(0, args[3])
        /\ ret.streak.streakDays <= Max(0, now.day - args[2].day + 1)
        /\ (ret.streak.streakDays >= 1 => ret.streak.isActiveToday)
        /\ (ret.streak.streakDays = 0 /\ ret.streak.isActiveToday)
              => (now.day < args[2].day \/ args[3] < 1)

\* a streak that stops at the budget's start day, short of the lookback
C27_Witness ==
    /\ HomeCall
    /\ args[3] = 365
    /\ now.day - args[2].day = 2
    /\ ret.streak.streakDays = 3
    /\ Len(expenses) = 2

\* C28 as stated, for every dailyLimit: with the expenses, dailyLimit, start
\* and maxLookbackDays fixed, from one day to the next streakDays becomes at
\* most the previous value + 1, exactly that when the new day is on or after
\* the start, its total is within the limit and the cap is not reached, and 0
\* when the new day's total exceeds the limit.
C28_OneDayAtATimeAnyLimit ==
    HomeCall =>
        /\ ret.streak.streakDays <= ret.previous.streakDays + 1
        /\ (/\ now.day >= args[2].day
            /\ DayAmount(expenses, now.day) <= args[1]
            /\ ret.previous.streakDays < args[3])
              => ret.streak.streakDays = ret.previous.streakDays + 1
        /\ DayAmount(expenses, now.day) > args[1]
              => ret.streak.streakDays = 0

\* C28: the same for dailyLimit > 0.
C28_OneDayAtATime ==
    (HomeCall /\ args[1] > 0) =>
        /\ ret.streak.streakDays <= ret.previous.streakDays + 1
        /\ (/\ now.day >= args[2].day
            /\ DayAmount(expenses, now.day) <= args[1]
            /\ ret.previous.streakDays < args[3])
              => ret.streak.streakDays = ret.previous.streakDays + 1
        /\ DayAmount(expenses, now.day) > args[1]
              => ret.streak.streakDays = 0

\* yesterday's streak of two days grows to three today, with spending today
C28_Witness ==
    /\ HomeCall
    /\ args[1] > 0
    /\ ret.previous.streakDays = 2
    /\ ret.streak.streakDays = 3
    /\ DayAmount(expenses, now.day) > 0

\* C29: for dailyLimit > 0, today's total as calculateBudgetStreak groups it
\* equals getAllBudgetStatuses' daily.totalSpent and the amount of the last
\* entry of getLast7DaysSpending; isActiveToday = false implies daily status
\* 'over'; daily status 'over' with isActiveToday = true happens exactly when
\* today's total equals dailyLimit.
C29_TodayAgrees ==
    (HomeCall /\ args[1] > 0) =>
        /\ dailyTotalsGet(expenses, toDateKey(now))
              = ret.statuses.daily.totalSpent
        /\ ret.statuses.daily.totalSpent = ret.last7Days[7].amount
        /\ (~ret.streak.isActiveToday => ret.statuses.daily.status = "over")
        /\ (ret.statuses.daily.status = "over" /\ ret.streak.isActiveToday)
              <=> ret.statuses.daily.totalSpent = args[1]

\* today's spending is exactly the limit: 'over' and still active
C29_Witness ==
    /\ HomeCall
    /\ args[1] = 30
    /\ ret.statuses.daily.totalSpent = 30
    /\ ret.statuses.daily.status = "over"
    /\ ret.streak.isActiveToday
    /\ ret.last7Days[7].amount = 30
    /\ Len(expenses) = 2

-----------------------------------------------------------------------------
(* Bounds of the forecast, under SpecForecast.                             *)

\* C30: calculateMonthlyForecast returns 1 <= daysElapsed <= days in the
\* month, daysRemaining >= 0 and daysElapsed + daysRemaining = days in the
\* month, so currentBurnRate is totalSpent / daysElapsed and never the
\* fallback; projectedTotal >= totalSpent >= 0, with equality on the last day
\* of the month; safeDailyLimit >= 0; and status 'safe' implies
\* totalSpent <= 0.9 * monthlyLimit.
C30_ForecastBounds ==
    ForecastCall =>
        /\ 1 <= ret.daysElapsed
        /\ ret.daysElapsed <= DaysInReferenceMonth
        /\ ret.daysRemaining >= 0
        /\ ret.daysElapsed + ret.daysRemaining = DaysInReferenceMonth
        /\ ret.currentBurnRate = Frac(ret.totalSpent, ret.daysElapsed)
        /\ ret.totalSpent >= 0
        /\ ret.projectedTotal.den > 0
        /\ ret.projectedTotal.num >= ret.totalSpent * ret.projectedTotal.den
        /\ (now.day = endOfMonth(now).day
               => FracIs(ret.projectedTotal, ret.totalSpent))
        /\ ret.safeDailyLimit.den > 0
        /\ ret.safeDailyLimit.num >= 0
        /\ (ret.status = "safe" => 10 * ret.totalSpent <= 9 * args[1])

\* the last day of April with exactly 90 % of the limit spent: still 'safe'
C30_Witness ==
    /\ ForecastCall
    /\ now.day = endOfMonth(now).day
    /\ ret.daysRemaining = 0
    /\ args[1] = 200
    /\ ret.totalSpent = 180
    /\ FracIs(ret.projectedTotal, 180)
    /\ ret.status = "safe"

====
